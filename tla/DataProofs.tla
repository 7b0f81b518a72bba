----------------------------- MODULE DataProofs -----------------------------
(***************************************************************************)
(* What holds of the data under the daily job: what ingestion writes and   *)
(* imports report (Ingestion), the trading calendar (TradeCalendar), the   *)
(* month-end weights (MonthEnd), the IC rows (IcCatchup), the market       *)
(* states (MarketDebounce) and the point-in-time tables (PitMarket).  The  *)
(* six share no variable.                                                  *)
(***************************************************************************)
EXTENDS Ingestion, TradeCalendar, MonthEnd, IcCatchup, MarketDebounce, PitMarket, InductionLemmas

-----------------------------------------------------------------------------

-----------------------------------------------------------------------------
(***************************************************************************)
(* Ingestion: nobody looks ahead, and the report of an import is true, for *)
(* any trade days, quarters, announcement days and number of failures.     *)
(***************************************************************************)
(* A daily row has a report only if it was announced by that day.          *)
RowsNotAhead ==
    \A d \in IngTradeDays : ingDaily[d] = "report" => Announced[QuarterOf[d]] <= d

(* What an import that runs or is done has got so far: rows are never      *)
(* taken away, so what it saw is still there.                              *)
ImportSoFar ==
    ingImport.at # "idle" =>
        /\ ingImport.good \subseteq ingQuotes
        /\ ingImport.skipped \subseteq FinancialDates
        /\ ingImport.good \cap ingImport.failed = {}
        /\ ingImport.todo \cap (ingImport.good \cup ingImport.failed) = {}

IngShape ==
    /\ ingToday \in Int
    /\ ingDaily \in [IngTradeDays -> {"none", "blank", "report"}]
    /\ ingReports \subseteq {q \in Quarters : Announced[q] <= ingToday}
    /\ ingImport.todo \subseteq IngTradeDays
    /\ ingImport \in [at : {"idle", "running", "done"}, todo : SUBSET IngTradeDays,
                      skipped : SUBSET Nat, good : SUBSET IngTradeDays, failed : SUBSET IngTradeDays]

IngInv == IngShape /\ RowsNotAhead /\ ImportSoFar

(* What the assumption on the constants says of the sets of the module.    *)
LEMMA IngTables ==
  ASSUME IngestionAssumption
  PROVE  /\ LastIngDay \in Nat /\ \A d \in IngTradeDays : d \in Nat /\ QuarterOf[d] \in Quarters
         /\ Quarters \subseteq Nat /\ \A q \in Quarters : Announced[q] \in Nat
         /\ IsFiniteSet(Quarters) /\ IsFiniteSet(IngTradeDays)
<1>1. LastIngDay \in Nat /\ IngTradeDays \subseteq 0..LastIngDay /\ IsFiniteSet(IngTradeDays)
  <2>1. IsFiniteSet(0..LastIngDay)
    BY FS_Interval DEF IngestionAssumption
  <2> QED BY <2>1, FS_Subset DEF IngestionAssumption
<1>2. \A d \in IngTradeDays : QuarterOf[d] \in Nat /\ QuarterOf[d] \in Quarters /\ d \in Nat
  BY <1>1 DEF IngestionAssumption, Quarters
<1>3. IsFiniteSet(Quarters)
  BY <1>1, ImageIsFinite DEF Quarters
<1> QED BY <1>1, <1>2, <1>3 DEF Quarters, IngestionAssumption

(* There are no rows at first and no import.                               *)
LEMMA IngInvInit == IngestionAssumption /\ IngestionInit => IngInv
BY DEF IngestionInit, IngInv, IngShape, RowsNotAhead, ImportSoFar, NoImport

(* What a day's ingest does to the table: only its row changes, a row once *)
(* there stays, and a report comes only when announced by then.            *)
LEMMA DayIngested ==
  ASSUME IngestionAssumption, IngInv, NEW d \in IngTradeDays,
         NEW fin \in FinancialOutcomes, NEW lost \in BOOLEAN, NEW t, t = FinancialsOf(d, fin, lost)
  PROVE  /\ t \in [IngTradeDays -> {"none", "blank", "report"}]
         /\ \A x \in IngTradeDays : /\ ingDaily[x] # "none" => t[x] # "none"
                                    /\ t[x] = "report" => Announced[QuarterOf[x]] <= x
<1> DEFINE answer == AskReports(QuarterOf[d], lost)
           old == ingDaily[d]
           row == Coalesced(old, DailyRow(d, answer))
<1>1. ingDaily \in [IngTradeDays -> {"none", "blank", "report"}] /\ RowsNotAhead
  BY DEF IngInv, IngShape
<1>2. /\ row \in {"none", "blank", "report"} /\ row # "none"
      /\ row = "report" => Announced[QuarterOf[d]] <= d
  BY <1>1 DEF Coalesced, DailyRow, RowsNotAhead
<1>3. t = IF fin \in {"ok", "bad_row"} THEN [ingDaily EXCEPT ![d] = row] ELSE ingDaily
  BY DEF FinancialsOf
<1> HIDE DEF row
<1> QED BY <1>1, <1>2, <1>3 DEF RowsNotAhead

(* Rows that stay keep the report of an import that saw them.              *)
LEMMA RowsStay ==
  ASSUME IngShape, ImportSoFar, UNCHANGED ingImport, ingQuotes \subseteq ingQuotes',
         ingReports \subseteq ingReports',
         \A x \in IngTradeDays : ingDaily[x] # "none" => ingDaily'[x] # "none"
  PROVE  ImportSoFar'
<1>1. FinancialDates \subseteq FinancialDates'
  BY DEF FinancialDates
<1> QED BY <1>1 DEF ImportSoFar

(* The daily job's ingest of one day, whatever of it fails.                *)
LEMMA IngestKeeps ==
  ASSUME IngestionAssumption, IngInv, NEW d \in IngTradeDays, NEW quotes \in QuoteOutcomes,
         NEW fin \in FinancialOutcomes, NEW lost \in BOOLEAN, IngestDaily(d, quotes, fin, lost)
  PROVE  IngInv'
<1>1. ingDaily' = FinancialsOf(d, fin, lost) /\ ingQuotes \subseteq ingQuotes'
      /\ UNCHANGED <<ingToday, ingReports, ingImport>>
  BY DEF IngestDaily
<1>2. /\ ingDaily' \in [IngTradeDays -> {"none", "blank", "report"}]
      /\ \A x \in IngTradeDays : /\ ingDaily[x] # "none" => ingDaily'[x] # "none"
                                 /\ ingDaily'[x] = "report" => Announced[QuarterOf[x]] <= x
  BY <1>1, DayIngested
<1>3. ImportSoFar'
  BY <1>1, <1>2, RowsStay DEF IngInv
<1> QED BY <1>1, <1>2, <1>3 DEF IngInv, IngShape, RowsNotAhead

(* The day the import takes up next is one of the days it was asked for.   *)
LEMMA NextDay ==
  ASSUME IngestionAssumption, IngInv, ingImport.todo # {}
  PROVE  Min(ingImport.todo) \in ingImport.todo /\ Min(ingImport.todo) \in IngTradeDays
<1> DEFINE todo == ingImport.todo
<1>1. todo \subseteq IngTradeDays /\ todo # {}
  BY DEF IngInv, IngShape
<1> HIDE DEF todo
<1>2. IsFiniteSet(IngTradeDays) /\ \A x \in IngTradeDays : x \in Nat
  BY IngTables
<1>3. IsFiniteSet(todo)
  BY <1>1, <1>2, FS_Subset
<1>4. \A x \in todo : x \in Nat
  BY <1>1, <1>2
<1>5. todo \subseteq Int
  BY <1>4
<1>6. Min(todo) \in todo
  BY <1>1, <1>3, <1>5, MinOfFinite
<1> QED BY <1>1, <1>6 DEF todo

(* The import takes up its next day: what it counts as good is there, and  *)
(* what it counts as failed is not among the good.                         *)
LEMMA ImportKeeps ==
  ASSUME IngestionAssumption, IngInv, NEW quotes \in QuoteOutcomes,
         NEW fin \in FinancialOutcomes, NEW lost \in BOOLEAN, ImportDay(quotes, fin, lost)
  PROVE  IngInv'
<1> DEFINE d == Min(ingImport.todo)
           bad == DayErrors(quotes, fin)
           good == IF bad THEN ingImport.good ELSE ingImport.good \cup {d}
           failed == IF bad THEN ingImport.failed \cup {d} ELSE ingImport.failed
<1>1. d \in ingImport.todo /\ d \in IngTradeDays
  BY NextDay DEF ImportDay
<1>2. /\ ingImport.at = "running" /\ UNCHANGED <<ingToday, ingReports>>
      /\ ingQuotes' = IF bad THEN ingQuotes ELSE ingQuotes \cup {d}
      /\ ingDaily' = IF bad THEN ingDaily ELSE FinancialsOf(d, fin, lost)
      /\ ingImport' = [ingImport EXCEPT
             !.todo = ingImport.todo \ {d},
             !.good = IF bad THEN ingImport.good ELSE ingImport.good \cup {d},
             !.failed = IF bad THEN ingImport.failed \cup {d} ELSE ingImport.failed]
  BY DEF ImportDay
<1> HIDE DEF d, bad
<1>3. ingImport \in [at : {"idle", "running", "done"}, todo : SUBSET IngTradeDays,
                     skipped : SUBSET Nat, good : SUBSET IngTradeDays, failed : SUBSET IngTradeDays]
      /\ ImportSoFar /\ IngShape /\ RowsNotAhead
  BY DEF IngInv, IngShape
<1>4. ingImport' = [at |-> "running", todo |-> ingImport.todo \ {d}, skipped |-> ingImport.skipped,
                    good |-> good, failed |-> failed]
  BY <1>2, <1>3
<1>5. /\ ingDaily' \in [IngTradeDays -> {"none", "blank", "report"}]
      /\ \A x \in IngTradeDays : /\ ingDaily[x] # "none" => ingDaily'[x] # "none"
                                 /\ ingDaily'[x] = "report" => Announced[QuarterOf[x]] <= x
  <2>1. CASE bad
    BY <1>2, <1>3, <2>1 DEF IngShape, RowsNotAhead
  <2>2. CASE ~bad
    BY <1>1, <1>2, <2>2, DayIngested
  <2> QED BY <2>1, <2>2
<1>6. FinancialDates \subseteq FinancialDates'
  BY <1>2, <1>5 DEF FinancialDates
<1>7. /\ ingImport.good \subseteq ingQuotes /\ ingImport.skipped \subseteq FinancialDates
      /\ ingImport.good \cap ingImport.failed = {}
      /\ ingImport.todo \cap (ingImport.good \cup ingImport.failed) = {}
  BY <1>2, <1>3 DEF ImportSoFar
<1>8. ImportSoFar'
  <2>1. CASE bad
    BY <1>1, <1>2, <1>4, <1>6, <1>7, <2>1 DEF ImportSoFar
  <2>2. CASE ~bad
    BY <1>1, <1>2, <1>4, <1>6, <1>7, <2>2 DEF ImportSoFar
  <2> QED BY <2>1, <2>2
<1>9. IngShape'
  <2>1. good \in SUBSET IngTradeDays /\ failed \in SUBSET IngTradeDays
    BY <1>1, <1>3
  <2>2. ingImport'.todo \subseteq IngTradeDays /\ ingImport' \in
          [at : {"idle", "running", "done"}, todo : SUBSET IngTradeDays,
           skipped : SUBSET Nat, good : SUBSET IngTradeDays, failed : SUBSET IngTradeDays]
    <3> HIDE DEF good, failed
    <3> QED BY <1>3, <1>4, <2>1
  <2> QED BY <1>2, <1>3, <1>5, <2>2 DEF IngShape
<1> QED BY <1>5, <1>8, <1>9 DEF IngInv, RowsNotAhead

(* An import begins: the days it skips have their rows.                    *)
LEMMA ImportStartKeeps ==
  ASSUME IngestionAssumption, IngInv, NEW first \in IngTradeDays, NEW last \in IngTradeDays,
         StartImport(first, last)
  PROVE  IngInv'
<1> DEFINE range == {d \in IngTradeDays : first <= d /\ d <= last}
           whole == FullyIngested(range)
<1>1. /\ ingImport' = [at |-> "running", todo |-> range \ whole, skipped |-> whole,
                       good |-> whole, failed |-> {}]
      /\ UNCHANGED <<ingToday, ingQuotes, ingDaily, ingReports>>
  BY DEF StartImport
<1>2. range \in SUBSET IngTradeDays /\ whole \in SUBSET range /\ whole \subseteq ingQuotes
      /\ whole \subseteq FinancialDates
  BY DEF FullyIngested
<1>3. whole \in SUBSET Nat
  BY <1>2, IngTables
<1> HIDE DEF range, whole
<1>4. FinancialDates' = FinancialDates
  BY <1>1 DEF FinancialDates
<1> QED BY <1>1, <1>2, <1>3, <1>4 DEF IngInv, IngShape, RowsNotAhead, ImportSoFar

(* The steps that write no daily row.                                      *)
LEMMA QuietKeepsIngestion ==
  ASSUME IngestionAssumption, IngInv,
         FinishImport \/ BackfillReports \/ RestartServer \/ NextIngDay \/ UNCHANGED ingVars
  PROVE  IngInv'
<1>0. ingToday \in Int /\ IngShape /\ ImportSoFar /\ RowsNotAhead
  BY DEF IngInv, IngShape
<1>1. CASE FinishImport
  <2>1. /\ ingImport' = [ingImport EXCEPT !.at = "done"] /\ ingImport.at = "running"
        /\ UNCHANGED <<ingToday, ingQuotes, ingDaily, ingReports>>
    BY <1>1 DEF FinishImport
  <2>2. FinancialDates' = FinancialDates
    BY <2>1 DEF FinancialDates
  <2> QED BY <1>0, <2>1, <2>2 DEF IngInv, IngShape, RowsNotAhead, ImportSoFar
<1>2. CASE BackfillReports
  <2>1. /\ ingReports' = {q \in Quarters : Announced[q] <= ingToday}
        /\ UNCHANGED <<ingToday, ingQuotes, ingDaily, ingImport>>
    BY <1>2 DEF BackfillReports
  <2>2. ImportSoFar'
    BY <1>0, <2>1, RowsStay DEF IngShape
  <2> QED BY <1>0, <2>1, <2>2 DEF IngInv, IngShape, RowsNotAhead
<1>3. CASE RestartServer
  BY <1>0, <1>3 DEF RestartServer, NoImport, IngInv, IngShape, RowsNotAhead, ImportSoFar
<1>4. CASE NextIngDay
  <2>1. ingToday' = ingToday + 1 /\ UNCHANGED <<ingQuotes, ingDaily, ingReports, ingImport>>
    BY <1>4 DEF NextIngDay
  <2>2. \A q \in Quarters : Announced[q] <= ingToday => Announced[q] <= ingToday'
    BY <1>0, <2>1, IngTables
  <2>3. ImportSoFar'
    BY <1>0, <2>1, RowsStay
  <2> QED BY <1>0, <2>1, <2>2, <2>3 DEF IngInv, IngShape, RowsNotAhead
<1>5. CASE UNCHANGED ingVars
  BY <1>0, <1>5 DEF ingVars, IngInv, IngShape, RowsNotAhead, ImportSoFar, FinancialDates
<1> QED BY <1>1, <1>2, <1>3, <1>4, <1>5

(* So it is in every state.                                                *)
LEMMA IngInvHolds == IngestionSpec => []IngInv
<1>1. IngestionAssumption
  BY IngestionAssumption
<1>2. IngInv /\ [IngestionNext]_ingVars => IngInv'
  BY <1>1, IngestKeeps, ImportKeeps, ImportStartKeeps, QuietKeepsIngestion DEF IngestionNext
<1> QED BY <1>1, <1>2, IngInvInit, PTL DEF IngestionSpec

(* No reader as of a day sees a report before its announcement: for any    *)
(* trade days, quarters and announcements, whichever of daily ingest, late *)
(* import, warm cache and backfill wrote the rows.                         *)
THEOREM NobodyLooksAhead == IngestionSpec => []NoLookAhead
<1>1. IngInv => NoLookAhead
  <2> SUFFICES ASSUME IngInv, NEW asOf \in 0..LastIngDay, LatestFinancial(asOf) # -1
               PROVE  Announced[LatestFinancial(asOf)] <= asOf
    BY DEF NoLookAhead
  <2> DEFINE V == VisibleQuarters(asOf)
  <2>1. V \subseteq Quarters /\ V # {} /\ LatestFinancial(asOf) = Max(V)
    BY DEF LatestFinancial, VisibleQuarters
  <2>2. IsFiniteSet(V) /\ V \subseteq Int
    BY <2>1, IngestionAssumption, IngTables, FS_Subset
  <2>3. Max(V) \in V
    BY <2>1, <2>2, MaxOfFinite
  <2>4. asOf \in Int
    OBVIOUS
  <2>5. \A q \in V : Announced[q] <= asOf
    <3> SUFFICES ASSUME NEW q \in V, NEW d \in IngTradeDays, d <= asOf, QuarterOf[d] = q,
                        ingDaily[d] = "report"
                 PROVE  Announced[q] <= asOf
      BY DEF VisibleQuarters
    <3>1. Announced[q] <= d /\ Announced[q] \in Nat /\ d \in Nat
      BY <2>1, IngestionAssumption, IngTables DEF IngInv, RowsNotAhead
    <3> QED BY <2>4, <3>1
  <2> QED BY <2>1, <2>3, <2>5
<1> QED BY <1>1, IngInvHolds, PTL

(* A day an import counts as done has its quotes, and one it skipped has   *)
(* fundamentals: for any ranges, failures, restarts and daily ingests      *)
(* between its days (import_history).                                      *)
THEOREM ImportsReportTruly == IngestionSpec => []ImportReportIsTrue
<1>1. IngInv => ImportReportIsTrue
  BY DEF IngInv, ImportSoFar, ImportReportIsTrue
<1> QED BY <1>1, IngInvHolds, PTL

-----------------------------------------------------------------------------

-----------------------------------------------------------------------------
(***************************************************************************)
(* TradeCalendar: a trading day is skipped only when the server could not  *)
(* know it, for any calendar, publication and number of restarts.          *)
(***************************************************************************)
(* What a table says of the exchange: an open row is a trading day, a      *)
(* trading day with a closed row was not published when that was written,  *)
(* and the rows reach from the first day without a gap.                    *)
SaysTrue(table, filled) ==
    /\ table \in [CalDays -> {"open", "closed", "absent"}]
    /\ \A d \in CalDays : table[d] = "open" => d \in OpenDays
    /\ \A d \in OpenDays : table[d] = "closed" => d > filled[d]
    /\ \A d, e \in CalDays : e <= d /\ table[d] # "absent" => table[e] # "absent"

(* The copy has every trading day up to where it reaches, except those     *)
(* nobody had published.                                                   *)
CopyIsTrue(memory) ==
    /\ memory.open \subseteq OpenDays
    /\ \A d \in OpenDays :
           d <= memory.loaded + RequiredAhead /\ d <= memory.known[d] => d \in memory.open

CalInv ==
    /\ calToday \in CalDays /\ calKnown \in CalDays
    /\ calFilledAt \in [CalDays -> CalDays]
    /\ SaysTrue(calTable, calFilledAt)
    /\ calServer = "jobs" => /\ CopyIsTrue(calMemory)
                             /\ calMemory.known \in [CalDays -> CalDays]
                             /\ calMemory.loaded \in CalDays
    /\ SkippedOnlyIfUnknown

(* The table is empty at first and nobody has asked.                       *)
LEMMA CalInvInit == CalendarAssumption /\ CalendarInit => CalInv
<1> SUFFICES ASSUME CalendarAssumption, CalendarInit
             PROVE  CalInv
  OBVIOUS
<1>1. 0 \in CalDays /\ calKnown \in CalDays /\ OpenDays \subseteq CalDays
  BY DEF CalendarAssumption, CalendarInit, CalDays
<1>2. \A d \in CalDays : calTable[d] = "absent"
  BY DEF CalendarInit
<1>3. SaysTrue(calTable, calFilledAt)
  BY <1>1, <1>2 DEF SaysTrue, CalendarInit
<1> QED BY <1>1, <1>3 DEF CalInv, CalendarInit, SkippedOnlyIfUnknown

(* A fill leaves a table that says the truth.                              *)
LEMMA FillSaysTrue ==
  ASSUME CalendarAssumption, CalInv
  PROVE  /\ SaysTrue(Filled, FilledAt) /\ FilledAt \in [CalDays -> CalDays]
         /\ \A d \in CalDays : d <= calToday + RequiredAhead => Filled[d] # "absent"
<1>1. /\ LastCalDay \in Nat /\ OpenDays \subseteq CalDays /\ RequiredAhead \in Nat
      /\ FillAhead \in Nat /\ RequiredAhead <= FillAhead /\ calToday \in Nat /\ calKnown \in CalDays
      /\ \A d \in CalDays : d \in Nat
  BY DEF CalendarAssumption, CalInv, CalDays
<1>2. \A d \in CalDays : d \in FillRange <=> d <= calToday + FillAhead
  BY <1>1 DEF FillRange, TradeDates
<1>3. SaysTrue(calTable, calFilledAt) /\ calFilledAt \in [CalDays -> CalDays]
  BY DEF CalInv
<1>4. \A d \in CalDays :
        /\ d \in FillRange => /\ Filled[d] = IF d \in OpenDays /\ d <= calKnown THEN "open" ELSE "closed"
                              /\ FilledAt[d] = calKnown
        /\ d \notin FillRange => Filled[d] = calTable[d] /\ FilledAt[d] = calFilledAt[d]
  BY DEF Filled, FilledAt
<1>5. FilledAt \in [CalDays -> CalDays]
  BY <1>1, <1>3 DEF FilledAt
<1>6. Filled \in [CalDays -> {"open", "closed", "absent"}]
  BY <1>3 DEF Filled, SaysTrue
<1>7. \A d \in CalDays : Filled[d] = "open" => d \in OpenDays
  BY <1>3, <1>4 DEF SaysTrue
<1>8. \A d \in OpenDays : Filled[d] = "closed" => d > FilledAt[d]
  <2> SUFFICES ASSUME NEW d \in OpenDays, Filled[d] = "closed"
               PROVE  d > FilledAt[d]
    OBVIOUS
  <2>1. d \in CalDays /\ d \in Nat /\ calKnown \in Nat
    BY <1>1
  <2>2. CASE d \in FillRange
    BY <1>4, <2>1, <2>2
  <2>3. CASE d \notin FillRange
    BY <1>3, <1>4, <2>1, <2>3 DEF SaysTrue
  <2> QED BY <2>2, <2>3
<1>9. \A d, e \in CalDays : e <= d /\ Filled[d] # "absent" => Filled[e] # "absent"
  <2> SUFFICES ASSUME NEW d \in CalDays, NEW e \in CalDays, e <= d, Filled[d] # "absent"
               PROVE  Filled[e] # "absent"
    OBVIOUS
  <2>1. CASE e \in FillRange
    BY <1>4, <2>1
  <2>2. CASE e \notin FillRange
    <3>1. d \notin FillRange
      BY <1>1, <1>2, <2>2
    <3> QED BY <1>3, <1>4, <2>2, <3>1 DEF SaysTrue
  <2> QED BY <2>1, <2>2
<1>10. \A d \in CalDays : d <= calToday + RequiredAhead => Filled[d] # "absent"
  BY <1>1, <1>2, <1>4
<1> QED BY <1>5, <1>6, <1>7, <1>8, <1>9, <1>10 DEF SaysTrue

(* A copy of a table that says the truth and reaches far enough is true.   *)
LEMMA CopyOfTruth ==
  ASSUME CalendarAssumption, calToday \in CalDays,
         NEW table, NEW filled \in [CalDays -> CalDays], SaysTrue(table, filled),
         \A d \in CalDays : d <= calToday + RequiredAhead => table[d] # "absent"
  PROVE  CopyIsTrue(CopyOf(table, filled))
<1> DEFINE m == CopyOf(table, filled)
<1>1. /\ m.open = {d \in TradeDates(CalDays, 0, calToday + RequiredAhead) : table[d] = "open"}
      /\ m.loaded = calToday /\ m.known = filled
  BY DEF CopyOf
<1> HIDE DEF m
<1>2. OpenDays \subseteq CalDays /\ \A d \in CalDays : d \in Nat
  BY DEF CalendarAssumption, CalDays
<1>3. m.open \subseteq OpenDays
  BY <1>1 DEF SaysTrue, TradeDates
<1>4. ASSUME NEW d \in OpenDays, d <= m.loaded + RequiredAhead, d <= m.known[d]
      PROVE  d \in m.open
  <2>1. d \in CalDays /\ d \in Nat /\ filled[d] \in Nat
    BY <1>2
  <2>2. table[d] # "absent" /\ table[d] # "closed"
    BY <1>1, <1>4, <2>1 DEF SaysTrue
  <2>3. table[d] = "open"
    BY <2>1, <2>2 DEF SaysTrue
  <2> QED BY <1>1, <1>4, <2>1, <2>3 DEF TradeDates
<1>5. CopyIsTrue(m)
  BY <1>3, <1>4 DEF CopyIsTrue
<1> QED BY <1>5 DEF m

(* The server starts with the table as it is, fills it, or without jobs.   *)
LEMMA ServerStartKeeps ==
  ASSUME CalendarAssumption, CalInv, StartServer
  PROVE  CalInv'
<1>1. /\ UNCHANGED <<calToday, calKnown, calAsked>>
      /\ SkippedOnlyIfUnknown' /\ calToday \in CalDays
  BY DEF StartServer, CalInv, SkippedOnlyIfUnknown
<1>2. ASSUME NEW table, NEW filled \in [CalDays -> CalDays], SaysTrue(table, filled),
             \A d \in CalDays : d <= calToday + RequiredAhead => table[d] # "absent",
             LoadCopy(table, filled)
      PROVE  CalInv'
  <2>1. CopyIsTrue(CopyOf(table, filled))
    BY <1>1, <1>2, CopyOfTruth
  <2>2. /\ calTable' = table /\ calFilledAt' = filled
        /\ calMemory' = CopyOf(table, filled) /\ calServer' = "jobs"
    BY <1>2 DEF LoadCopy
  <2>3. calMemory'.known = filled /\ calMemory'.loaded = calToday
    BY <2>2 DEF CopyOf
  <2>4. SaysTrue(calTable', calFilledAt')
    BY <1>2, <2>2
  <2> QED BY <1>1, <1>2, <2>1, <2>2, <2>3, <2>4 DEF CalInv, SaysTrue, CopyIsTrue
<1>3. CASE Covered /\ LoadCopy(calTable, calFilledAt)
  <2>1. SaysTrue(calTable, calFilledAt) /\ calFilledAt \in [CalDays -> CalDays]
    BY DEF CalInv
  <2>2. ASSUME NEW d \in CalDays, d <= calToday + RequiredAhead
        PROVE  calTable[d] # "absent"
    <3>1. PICK e \in CalDays : calTable[e] # "absent" /\ e >= calToday + RequiredAhead
      BY <1>3 DEF Covered
    <3>2. d \in Int /\ e \in Int /\ calToday \in Int /\ RequiredAhead \in Int
      BY <1>1 DEF CalDays, CalendarAssumption
    <3> QED BY <2>1, <2>2, <3>1, <3>2 DEF SaysTrue
  <2> QED BY <1>2, <1>3, <2>1, <2>2
<1>4. CASE LoadCopy(Filled, FilledAt)
  BY <1>2, <1>4, FillSaysTrue
<1>5. CASE calServer' = "no_jobs" /\ UNCHANGED <<calTable, calFilledAt, calMemory>>
  BY <1>1, <1>5 DEF CalInv, SaysTrue
<1> QED BY <1>3, <1>4, <1>5 DEF StartServer

(* A job asks the copy in memory.                                          *)
LEMMA QuestionKeeps ==
  ASSUME CalendarAssumption, CalInv, AskCalendar
  PROVE  CalInv'
<1> DEFINE a == [day |-> calToday, ran |-> calToday \in calMemory.open,
                 loaded |-> calMemory.loaded, known |-> calMemory.known[calToday],
                 table |-> calTable[calToday]]
<1>1. /\ calAsked' = calAsked \cup {a} /\ calServer = "jobs"
      /\ UNCHANGED <<calToday, calKnown, calTable, calFilledAt, calServer, calMemory>>
  BY DEF AskCalendar
<1>2. /\ a.day = calToday /\ (a.ran <=> calToday \in calMemory.open)
      /\ a.loaded = calMemory.loaded /\ a.known = calMemory.known[calToday]
  OBVIOUS
<1> HIDE DEF a
<1>3. CopyIsTrue(calMemory) /\ calToday \in Nat /\ calMemory.loaded \in Nat
      /\ calMemory.known[calToday] \in Nat /\ RequiredAhead \in Nat
  <2>1. /\ CopyIsTrue(calMemory) /\ calToday \in CalDays /\ calMemory.loaded \in CalDays
        /\ calMemory.known \in [CalDays -> CalDays]
    BY <1>1 DEF CalInv
  <2>2. calMemory.known[calToday] \in CalDays
    BY <2>1
  <2> QED BY <2>1, <2>2 DEF CalDays, CalendarAssumption
<1>4. IF a.ran THEN a.day \in OpenDays
      ELSE a.day \in OpenDays => a.day > a.loaded + RequiredAhead \/ a.day > a.known
  <2>1. CASE calToday \in calMemory.open
    BY <1>2, <1>3, <2>1 DEF CopyIsTrue
  <2>2. CASE calToday \notin calMemory.open
    BY <1>2, <1>3, <2>2 DEF CopyIsTrue
  <2> QED BY <2>1, <2>2
<1>5. SkippedOnlyIfUnknown'
  BY <1>1, <1>4 DEF CalInv, SkippedOnlyIfUnknown
<1> QED BY <1>1, <1>5 DEF CalInv, SaysTrue, CopyIsTrue

(* Every step keeps it.                                                    *)
LEMMA CalInvStep ==
  ASSUME CalendarAssumption, CalInv, [CalendarNext]_calVars
  PROVE  CalInv'
<1>1. CASE StartServer
  BY <1>1, ServerStartKeeps
<1>2. CASE StopServer
  BY <1>2 DEF StopServer, CalInv, SaysTrue, SkippedOnlyIfUnknown
<1>3. CASE RefreshCalendar
  <2>1. /\ calTable' = Filled /\ calFilledAt' = FilledAt
        /\ UNCHANGED <<calToday, calKnown, calServer, calMemory, calAsked>>
    BY <1>3 DEF RefreshCalendar
  <2>2. SaysTrue(calTable', calFilledAt') /\ calFilledAt' \in [CalDays -> CalDays]
    BY <2>1, FillSaysTrue
  <2> QED BY <2>1, <2>2 DEF CalInv, SaysTrue, CopyIsTrue, SkippedOnlyIfUnknown
<1>4. CASE AskCalendar
  BY <1>4, QuestionKeeps
<1>5. CASE NextCalDay
  <2>2. calToday' \in CalDays
    BY <1>5 DEF NextCalDay, CalInv, CalDays, CalendarAssumption
  <2>3. calKnown' \in CalDays
    BY <1>5 DEF NextCalDay, CalInv, CalendarAssumption
  <2>1. calToday' \in CalDays /\ calKnown' \in CalDays
    BY <2>2, <2>3
  <2> QED BY <1>5, <2>1 DEF NextCalDay, CalInv, SaysTrue, CopyIsTrue, SkippedOnlyIfUnknown
<1>6. CASE UNCHANGED calVars
  BY <1>6 DEF calVars, CalInv, SaysTrue, CopyIsTrue, SkippedOnlyIfUnknown
<1> QED BY <1>1, <1>2, <1>3, <1>4, <1>5, <1>6 DEF CalendarNext

(* A trading day on which the daily job did nothing lies beyond what the   *)
(* server copied at its start or was not published when its row was        *)
(* written, and the job never runs on a closed day: for any calendar and   *)
(* any interleaving of starts, stops, refreshes and failed fetches.        *)
THEOREM OnlyUnknownDaysAreSkipped == CalendarSpec => []SkippedOnlyIfUnknown
<1>1. CalendarInit => CalInv
  BY CalendarAssumption, CalInvInit
<1>2. CalInv /\ [CalendarNext]_calVars => CalInv'
  BY CalendarAssumption, CalInvStep
<1>3. CalInv => SkippedOnlyIfUnknown
  BY DEF CalInv
<1> QED BY <1>1, <1>2, <1>3, PTL DEF CalendarSpec

-----------------------------------------------------------------------------

-----------------------------------------------------------------------------
(***************************************************************************)
(* MonthEnd: no rebalance changes the weights of a day that was scored     *)
(* before, for any ICIRs, states, strategies and months.                   *)
(***************************************************************************)
(* The table of the weights has a place for every month, and nothing was   *)
(* scored ahead of its time.                                               *)
MonthInv ==
    /\ meMonth \in Months
    /\ \A g \in MarketStates : DOMAIN meWeights[g] = EffectMonths
    /\ DOMAIN meWeights = MarketStates
    /\ \A x \in meScored : x.state \in MarketStates /\ x.month \in Months /\ x.month <= meMonth
    /\ RescoringSeesSameWeights

(* No day is scored at first.                                              *)
LEMMA MonthInvInit == MonthEndAssumption /\ MonthEndInit => MonthInv
BY DEF MonthEndAssumption, MonthEndInit, MonthInv, Months, EffectMonths, RescoringSeesSameWeights

(* The newest row held in a month is found among those up to the month.    *)
LEMMA LatestSame ==
  ASSUME NEW g, NEW m \in Nat, NEW g1, g1 = meWeights[g], NEW g2, g2 = meWeights'[g],
         \A k \in 1..m : g2[k] = g1[k]
  PROVE  ActiveWeights(g, m)' = ActiveWeights(g, m)
<1> DEFINE held == {k \in 1..m : g1[k] # NoWeights}
           top == CHOOSE k \in held : \A j \in held : j <= k
           later == {k \in 1..m : g2[k] # NoWeights}
<1>1. LatestRow(g, m) = IF held = {} THEN NoWeights ELSE g1[top]
  BY DEF LatestRow
<1>2. held = later
  OBVIOUS
<1>3. LatestRow(g, m)' = IF held = {} THEN NoWeights ELSE g2[top]
  <2>1. LatestRow(g, m)' = IF later = {} THEN NoWeights
                           ELSE g2[CHOOSE k \in later : \A j \in later : j <= k]
    BY DEF LatestRow, NoWeights
  <2> HIDE DEF held, later
  <2>2. (CHOOSE k \in later : \A j \in later : j <= k) = top
    BY <1>2, Zenon
  <2> QED BY <1>2, <2>1, <2>2
<1>4. held # {} => top \in held
  <2>1. IsFiniteSet(1..m)
    BY FS_Interval
  <2>2. IsFiniteSet(held) /\ held \subseteq Int
    BY <2>1, FS_Subset
  <2> HIDE DEF held
  <2>3. held # {} => \E x \in held : \A y \in held : x >= y
    BY <2>2, FiniteHasExtremes
  <2>4. held # {} => \E x \in held : \A y \in held : y <= x
    BY <2>2, <2>3
  <2> QED BY <2>4
<1>5. top \in held => top \in 1..m
  OBVIOUS
<1> HIDE DEF held, top
<1>6. LatestRow(g, m)' = LatestRow(g, m)
  BY <1>1, <1>3, <1>4, <1>5
<1> QED BY <1>6 DEF ActiveWeights

(* Weights that stay are the same in every month.                          *)
LEMMA SameWeights ==
  ASSUME meWeights' = meWeights, MonthInv, meScored' = meScored
  PROVE  RescoringSeesSameWeights'
<1> SUFFICES ASSUME NEW x \in meScored
             PROVE  ActiveWeights(x.state, x.month)' = x.weight
  BY DEF RescoringSeesSameWeights
<1>1. x.month \in Nat /\ ActiveWeights(x.state, x.month) = x.weight
  BY DEF MonthInv, RescoringSeesSameWeights, Months
<1> QED BY <1>1, LatestSame

(* Steps that write no weights and score nothing keep what was scored.     *)
LEMMA WeightsUntouched ==
  ASSUME MonthInv, UNCHANGED <<meMonth, meWeights, meScored>>
  PROVE  MonthInv'
<1>1. RescoringSeesSameWeights'
  BY SameWeights
<1> QED BY <1>1 DEF MonthInv

(* A rebalance writes rows of the month after the current one.             *)
LEMMA RebalanceKeeps ==
  ASSUME MonthEndAssumption, MonthInv, Rebalance
  PROVE  MonthInv'
<1>1. UNCHANGED <<meMonth, meScored>>
  BY DEF Rebalance, Committed, GoOn
<1>2. PICK new :
        meWeights' = [g \in MarketStates |-> [meWeights[g] EXCEPT ![EffectMonth(meMonth)] = new[g]]]
  <2>1. PICK icir \in [MarketStates -> [Strategies -> RollingIcir]] :
          LET rows == [g \in MarketStates |-> [s \in Strategies |->
                          IF icir[g][s] = NoSample THEN meIcirs[g][s]
                          ELSE <<icir[g][s]>> \o meIcirs[g][s]]]
          IN meWeights' = [g \in MarketStates |->
               [meWeights[g] EXCEPT ![EffectMonth(meMonth)] = EffectRow(g, icir[g], rows[g])]]
    BY DEF Rebalance
  <2> DEFINE rows == [g \in MarketStates |-> [s \in Strategies |->
                        IF icir[g][s] = NoSample THEN meIcirs[g][s]
                        ELSE <<icir[g][s]>> \o meIcirs[g][s]]]
  <2>2. [g \in MarketStates |-> [meWeights[g] EXCEPT ![EffectMonth(meMonth)] =
             [h \in MarketStates |-> EffectRow(h, icir[h], rows[h])][g]]]
        = [g \in MarketStates |->
              [meWeights[g] EXCEPT ![EffectMonth(meMonth)] = EffectRow(g, icir[g], rows[g])]]
    BY Zenon
  <2>3. meWeights' = [g \in MarketStates |->
              [meWeights[g] EXCEPT ![EffectMonth(meMonth)] = EffectRow(g, icir[g], rows[g])]]
    BY <2>1, Zenon
  <2> HIDE DEF rows
  <2> QED BY <2>2, <2>3, Zenon
<1>3. meMonth \in Nat /\ LastMonth \in Nat
  BY DEF MonthInv, Months, MonthEndAssumption
<1>4. ASSUME NEW g \in MarketStates
      PROVE  /\ DOMAIN meWeights'[g] = EffectMonths
             /\ \A k \in EffectMonths : k <= meMonth => meWeights'[g][k] = meWeights[g][k]
  BY <1>2, <1>3 DEF MonthInv, EffectMonth, EffectMonths
<1>5. ASSUME NEW x \in meScored
      PROVE  ActiveWeights(x.state, x.month)' = x.weight
  <2>1. /\ x.state \in MarketStates /\ x.month \in Nat /\ x.month <= meMonth
        /\ x.month \in Months /\ ActiveWeights(x.state, x.month) = x.weight
    BY DEF MonthInv, RescoringSeesSameWeights, Months
  <2>2. \A k \in 1..x.month : k \in EffectMonths /\ k <= meMonth
    BY <1>3, <2>1 DEF EffectMonths, Months
  <2>3. \A k \in 1..x.month : meWeights'[x.state][k] = meWeights[x.state][k]
    BY <1>4, <2>1, <2>2
  <2>4. ActiveWeights(x.state, x.month)' = ActiveWeights(x.state, x.month)
    BY <1>1, <2>1, <2>3, LatestSame
  <2> QED BY <2>1, <2>4
<1>6. RescoringSeesSameWeights'
  BY <1>1, <1>5 DEF RescoringSeesSameWeights
<1> QED BY <1>1, <1>2, <1>4, <1>6 DEF MonthInv, Months

(* A new month begins: it rewrites nothing.                                *)
LEMMA NextMonthKeeps ==
  ASSUME MonthEndAssumption, MonthInv, NextMonth
  PROVE  MonthInv'
<1>1. meMonth' = meMonth + 1 /\ meMonth < LastMonth /\ UNCHANGED <<meWeights, meScored>>
  BY DEF NextMonth
<1>2. RescoringSeesSameWeights'
  BY <1>1, SameWeights
<1>3. meMonth' \in Months
  BY <1>1 DEF MonthInv, Months, MonthEndAssumption
<1>4. \A x \in meScored : x.month \in Nat /\ x.month <= meMonth'
  BY <1>1 DEF MonthInv, Months
<1> QED BY <1>1, <1>2, <1>3, <1>4 DEF MonthInv

(* A scored day is recorded with the weights it sees.                      *)
LEMMA ScoreKeeps ==
  ASSUME MonthInv, NEW g \in MarketStates, NEW m \in Months, ScoreDay(g, m)
  PROVE  MonthInv'
<1> DEFINE x == [state |-> g, month |-> m, weight |-> ActiveWeights(g, m)]
<1>1. /\ m <= meMonth /\ meScored' = meScored \cup {x}
      /\ UNCHANGED <<meMonth, meWeights>>
  BY DEF ScoreDay
<1>2. x.state = g /\ x.month = m /\ x.weight = ActiveWeights(g, m)
  OBVIOUS
<1> HIDE DEF x
<1>3. \A y \in meScored' : ActiveWeights(y.state, y.month)' = ActiveWeights(y.state, y.month)
  <2>1. \A y \in meScored' : y.month \in Nat
    BY <1>1, <1>2 DEF MonthInv, Months
  <2> QED BY <1>1, <2>1, LatestSame
<1>4. RescoringSeesSameWeights'
  BY <1>1, <1>2, <1>3 DEF MonthInv, RescoringSeesSameWeights
<1> QED BY <1>1, <1>2, <1>4 DEF MonthInv

(* Every step keeps it.                                                    *)
LEMMA MonthInvStep ==
  ASSUME MonthEndAssumption, MonthInv, [MonthEndNext]_monthVars
  PROVE  MonthInv'
<1>1. CASE Rebalance
  BY <1>1, RebalanceKeeps
<1>2. CASE NextMonth
  BY <1>2, NextMonthKeeps
<1>3. CASE \E g \in MarketStates, m \in Months : ScoreDay(g, m)
  BY <1>3, ScoreKeeps
<1>4. CASE StartMonthEnd \/ RefreshFinancials \/ RefreshRaises \/ MonthRunDies
  BY <1>4, WeightsUntouched DEF StartMonthEnd, RefreshFinancials, RefreshRaises, MonthRunDies
<1>5. CASE MonitorFactors \/ Attribute \/ WriteReports \/ JobFails
  BY <1>5, WeightsUntouched DEF MonitorFactors, Attribute, WriteReports, JobFails, Committed, GoOn
<1>6. CASE UNCHANGED monthVars
  BY <1>6, WeightsUntouched DEF monthVars
<1> QED BY <1>1, <1>2, <1>3, <1>4, <1>5, <1>6 DEF MonthEndNext

(* A day that is scored again sees the weights it was first scored with,   *)
(* however many month ends, failed jobs and rebalances lie between: the    *)
(* rebalance never writes a row that holds in a month already begun.       *)
THEOREM RescoringIsStable == MonthEndSpec => []RescoringSeesSameWeights
<1>1. MonthEndInit => MonthInv
  BY MonthEndAssumption, MonthInvInit
<1>2. MonthInv /\ [MonthEndNext]_monthVars => MonthInv'
  BY MonthEndAssumption, MonthInvStep
<1>3. MonthInv => RescoringSeesSameWeights
  BY DEF MonthInv
<1> QED BY <1>1, <1>2, <1>3, PTL DEF MonthEndSpec

-----------------------------------------------------------------------------

-----------------------------------------------------------------------------
(***************************************************************************)
(* IcCatchup: with one day an evening (_DAILY_IC_CATCHUP_MAX_DAYS is 1)    *)
(* the window has no hole behind the job and the backlog is bounded by the *)
(* evenings that wrote nothing, for any calendar, lag and look-back.       *)
(***************************************************************************)
(* The day whose return is realised on day t: the IcLag-th before it.      *)
Realised(a, t) ==
    a \in IcTradeDays /\ a < t /\ Cardinality(TradeDates(IcTradeDays, a, t - 1)) = IcLag

(* The trading days of a range can be counted.                             *)
LEMMA RangeIsFinite ==
  ASSUME IcAssumption, NEW a \in Int, NEW b \in Int
  PROVE  /\ IsFiniteSet(TradeDates(IcTradeDays, a, b))
         /\ Cardinality(TradeDates(IcTradeDays, a, b)) \in Nat
<1>0. \A d \in IcTradeDays : d \in Nat
  BY DEF IcAssumption
<1>1. TradeDates(IcTradeDays, a, b) \subseteq 0..b
  <2> SUFFICES ASSUME NEW d \in TradeDates(IcTradeDays, a, b)
               PROVE  d \in 0..b
    OBVIOUS
  <2>1. d \in IcTradeDays /\ d <= b
    BY DEF TradeDates
  <2> QED BY <1>0, <2>1
<1>2. IsFiniteSet(0..b)
  BY FS_Interval
<1> QED BY <1>1, <1>2, FS_Subset, FS_CardinalityType

(* A later end adds the trading day there, an earlier start the one there. *)
LEMMA RangeGrows ==
  ASSUME IcAssumption, NEW a \in Nat, NEW t \in Nat, a <= t
  PROVE  Cardinality(TradeDates(IcTradeDays, a, t)) =
             Cardinality(TradeDates(IcTradeDays, a, t - 1)) + (IF t \in IcTradeDays THEN 1 ELSE 0)
<1> DEFINE S == TradeDates(IcTradeDays, a, t - 1)
           R == TradeDates(IcTradeDays, a, t)
<1>0. \A d \in IcTradeDays : d \in Nat
  BY DEF IcAssumption
<1>1. IsFiniteSet(S)
  BY RangeIsFinite
<1>4. \A d : /\ d \in R <=> d \in IcTradeDays /\ a <= d /\ d <= t
             /\ d \in S <=> d \in IcTradeDays /\ a <= d /\ d <= t - 1
  BY DEF TradeDates
<1>5. \A d \in IcTradeDays : d <= t <=> d <= t - 1 \/ d = t
  BY <1>0
<1>2. CASE t \in IcTradeDays
  <2>1. R = S \cup {t} /\ t \notin S
    <3> HIDE DEF R, S
    <3>1. t \in R /\ t \notin S
      BY <1>2, <1>4
    <3>2. \A d : d \in R <=> d \in S \/ d = t
      BY <1>4, <1>5, <3>1
    <3> QED BY <3>1, <3>2
  <2> HIDE DEF R, S
  <2>2. Cardinality(R) = Cardinality(S) + 1
    BY <1>1, <2>1, FS_AddElement
  <2> QED BY <1>2, <2>2 DEF R, S
<1>3. CASE t \notin IcTradeDays
  <2>1. R = S
    <3> HIDE DEF R, S
    <3>1. \A d : d \in R <=> d \in S
      BY <1>3, <1>4, <1>5
    <3> QED BY <3>1
  <2>2. Cardinality(S) \in Nat
    BY RangeIsFinite
  <2> HIDE DEF R, S
  <2> QED BY <1>3, <2>1, <2>2 DEF R, S
<1> QED BY <1>2, <1>3

(* Two trading days a < b: the range from a has more than the one from b,  *)
(* and one more only if none lies between.                                 *)
LEMMA RangeFromEarlier ==
  ASSUME IcAssumption, NEW a \in IcTradeDays, NEW b \in Nat, a < b, NEW e \in Int, b <= e + 1
  PROVE  LET A == Cardinality(TradeDates(IcTradeDays, a, e))
             B == Cardinality(TradeDates(IcTradeDays, b, e))
         IN /\ A > B
            /\ \A d \in IcTradeDays : a < d /\ d < b => A > B + 1
<1> DEFINE S == TradeDates(IcTradeDays, a, e)
           R == TradeDates(IcTradeDays, b, e)
<1>1. IsFiniteSet(S) /\ IsFiniteSet(R) /\ Cardinality(R) \in Nat /\ Cardinality(S) \in Nat
  <2>1. a \in Int /\ b \in Int
    BY DEF IcAssumption
  <2> QED BY <2>1, RangeIsFinite
<1>2. \A d \in IcTradeDays : d \in Nat
  BY DEF IcAssumption
<1>3. R \cup {a} \subseteq S /\ a \notin R
  <2>1. a \in S /\ a \notin R
    BY <1>2 DEF TradeDates
  <2>2. \A d \in R : d \in S
    BY <1>2 DEF TradeDates
  <2> QED BY <2>1, <2>2
<1>4. Cardinality(R \cup {a}) = Cardinality(R) + 1 /\ IsFiniteSet(R \cup {a})
  <2> HIDE DEF R
  <2> QED BY <1>1, <1>3, FS_AddElement
<1>5. Cardinality(R \cup {a}) <= Cardinality(S)
  <2> HIDE DEF R, S
  <2> QED BY <1>1, <1>3, FS_Subset
<1>6. ASSUME NEW d \in IcTradeDays, a < d, d < b
      PROVE  Cardinality(S) > Cardinality(R) + 1
  <2>1. (R \cup {a}) \cup {d} \subseteq S /\ d \notin R \cup {a}
    BY <1>2, <1>3, <1>6 DEF TradeDates
  <2> HIDE DEF R, S
  <2> DEFINE Q == R \cup {a}
  <2>4. IsFiniteSet(Q) /\ Cardinality(Q) = Cardinality(R) + 1 /\ d \notin Q
    BY <1>4, <2>1
  <2> HIDE DEF Q
  <2>5. Cardinality(Q \cup {d}) = Cardinality(Q) + 1
    BY <2>4, FS_AddElement
  <2>2. Cardinality((R \cup {a}) \cup {d}) = Cardinality(R) + 2
    BY <1>1, <2>4, <2>5 DEF Q
  <2>3. Cardinality((R \cup {a}) \cup {d}) <= Cardinality(S)
    BY <1>1, <2>1, FS_Subset
  <2> QED BY <1>1, <2>2, <2>3
<1> HIDE DEF R, S
<1>7. Cardinality(S) > Cardinality(R)
  BY <1>1, <1>4, <1>5
<1> QED BY <1>6, <1>7 DEF R, S

(* There is at most one such day, and LastEligible finds it.               *)
LEMMA RealisedIsUnique ==
  ASSUME IcAssumption, NEW t \in Nat, NEW a, NEW b, Realised(a, t), Realised(b, t)
  PROVE  a = b
<1>1. \A x, y : Realised(x, t) /\ Realised(y, t) => ~(x < y)
  <2> SUFFICES ASSUME NEW x, NEW y, Realised(x, t), Realised(y, t), x < y
               PROVE  FALSE
    OBVIOUS
  <2>1. x \in IcTradeDays /\ x \in Nat /\ y \in Nat /\ y <= (t - 1) + 1
    BY DEF Realised, IcAssumption
  <2>2. Cardinality(TradeDates(IcTradeDays, x, t - 1)) > Cardinality(TradeDates(IcTradeDays, y, t - 1))
    BY <2>1, RangeFromEarlier
  <2>3. IcLag \in Nat
    BY DEF IcAssumption
  <2> QED BY <2>2, <2>3 DEF Realised
<1>2. a \in Nat /\ b \in Nat
  BY DEF Realised, IcAssumption
<1> QED BY <1>1, <1>2

(* LastEligible is that day if there is one, and no date otherwise.        *)
LEMMA LastEligibleIs ==
  ASSUME IcAssumption, NEW t \in Nat
  PROVE  /\ \A a : Realised(a, t) => LastEligible(t) = a
         /\ (\A a : ~Realised(a, t)) => LastEligible(t) = -1
<1> DEFINE nth == {e \in IcTradeDays : e < t /\ Cardinality(TradeDates(IcTradeDays, e, t - 1)) = IcLag}
<1>1. LastEligible(t) = IF nth = {} THEN -1 ELSE CHOOSE e \in nth : TRUE
  BY DEF LastEligible, PrevTradeDate, NoDate
<1>2. \A e : e \in nth <=> Realised(e, t)
  BY DEF Realised
<1> HIDE DEF nth
<1>3. nth # {} => (CHOOSE e \in nth : TRUE) \in nth
  OBVIOUS
<1>4. \A a : Realised(a, t) => LastEligible(t) = a
  BY <1>1, <1>2, <1>3, RealisedIsUnique
<1> QED BY <1>1, <1>2, <1>4

(* From the next trading day on the range has just one less.               *)
LEMMA RangeFromNext ==
  ASSUME IcAssumption, NEW a \in IcTradeDays, NEW b \in IcTradeDays, a < b,
         NEW e \in Int, b <= e, \A d \in IcTradeDays : a < d => b <= d
  PROVE  Cardinality(TradeDates(IcTradeDays, a, e)) = Cardinality(TradeDates(IcTradeDays, b, e)) + 1
<1> DEFINE S == TradeDates(IcTradeDays, a, e)
           R == TradeDates(IcTradeDays, b, e)
<1>1. a \in Int /\ b \in Int /\ \A d \in IcTradeDays : d \in Nat
  BY DEF IcAssumption
<1>2. IsFiniteSet(R)
  BY <1>1, RangeIsFinite
<1>3. \A d : /\ d \in S <=> d \in IcTradeDays /\ a <= d /\ d <= e
             /\ d \in R <=> d \in IcTradeDays /\ b <= d /\ d <= e
  BY DEF TradeDates
<1>4. \A d \in IcTradeDays : a <= d <=> d = a \/ b <= d
  BY <1>1
<1>5. a \notin R /\ a \in S
  BY <1>1, <1>3
<1> HIDE DEF S, R
<1>6. S = R \cup {a}
  <2>1. \A d : d \in S <=> d \in R \/ d = a
    BY <1>3, <1>4, <1>5
  <2> QED BY <2>1
<1>7. Cardinality(S) = Cardinality(R) + 1
  BY <1>2, <1>5, <1>6, FS_AddElement
<1> QED BY <1>7 DEF S, R

(* From one day to the next the last day whose return is realised stays,   *)
(* or, behind a trading day, moves on by one trading day.                  *)
LEMMA EligibleMoves ==
  ASSUME IcAssumption, NEW t \in Nat
  PROVE  /\ LastEligible(t) \in Int /\ LastEligible(t + 1) \in Int
         /\ LastEligible(t) <= LastEligible(t + 1)
         /\ t \notin IcTradeDays => LastEligible(t + 1) = LastEligible(t)
         /\ \A d \in IcTradeDays :
                LastEligible(t) < d /\ d <= LastEligible(t + 1) => d = LastEligible(t + 1)
<1>1. IcLag \in Nat /\ \A d \in IcTradeDays : d \in Nat
  BY DEF IcAssumption
<1>2. \A e \in IcTradeDays : e <= t =>
        Cardinality(TradeDates(IcTradeDays, e, t)) =
            Cardinality(TradeDates(IcTradeDays, e, t - 1)) + (IF t \in IcTradeDays THEN 1 ELSE 0)
  BY <1>1, RangeGrows
<1>3. \A e : Realised(e, t + 1) <=>
        e \in IcTradeDays /\ e <= t /\ Cardinality(TradeDates(IcTradeDays, e, t)) = IcLag
  <2>1. (t + 1) - 1 = t
    OBVIOUS
  <2>2. \A e \in IcTradeDays : e < t + 1 <=> e <= t
    BY <1>1
  <2> QED BY <2>1, <2>2 DEF Realised
<1>4. \A e : Realised(e, t) <=>
        e \in IcTradeDays /\ e < t /\ Cardinality(TradeDates(IcTradeDays, e, t - 1)) = IcLag
  BY DEF Realised
<1>5. /\ \A e : Realised(e, t) => LastEligible(t) = e
      /\ (\A e : ~Realised(e, t)) => LastEligible(t) = -1
      /\ \A e : Realised(e, t + 1) => LastEligible(t + 1) = e
      /\ (\A e : ~Realised(e, t + 1)) => LastEligible(t + 1) = -1
  <2>1. t + 1 \in Nat
    OBVIOUS
  <2> QED BY <2>1, LastEligibleIs
<1>6. \A e \in IcTradeDays, u \in Int : Cardinality(TradeDates(IcTradeDays, e, u)) \in Nat
  <2>1. \A e, u \in Int : Cardinality(TradeDates(IcTradeDays, e, u)) \in Nat
    BY RangeIsFinite
  <2>2. \A e \in IcTradeDays : e \in Int
    BY <1>1
  <2> HIDE <1>1
  <2> QED BY <2>1, <2>2
<1>7. CASE t \notin IcTradeDays
  <2>1. \A e \in IcTradeDays : e < t <=> e <= t
    BY <1>1, <1>7
  <2>2. \A e \in IcTradeDays : e <= t =>
          Cardinality(TradeDates(IcTradeDays, e, t)) = Cardinality(TradeDates(IcTradeDays, e, t - 1))
    BY <1>2, <1>6, <1>7
  <2>3. \A e : Realised(e, t + 1) <=> Realised(e, t)
    BY <1>3, <1>4, <2>1, <2>2
  <2>4. LastEligible(t + 1) = LastEligible(t) /\ LastEligible(t) \in Int
    <3>1. CASE \E e : Realised(e, t)
      <4>1. PICK e : Realised(e, t)
        BY <3>1
      <4>2. e \in Nat
        BY <1>1, <1>4, <4>1
      <4> QED BY <1>5, <2>3, <4>1, <4>2
    <3>2. CASE \A e : ~Realised(e, t)
      BY <1>5, <2>3, <3>2
    <3> QED BY <3>1, <3>2
  <2> QED BY <1>1, <2>4
<1>8. ASSUME t \in IcTradeDays, NEW a, Realised(a, t)
      PROVE  \E e \in IcTradeDays : /\ Realised(e, t + 1) /\ a < e
                                     /\ \A d \in IcTradeDays : a < d => e <= d
  <2> DEFINE S == TradeDates(IcTradeDays, a + 1, t)
  <2>1. a \in IcTradeDays /\ a \in Nat /\ a < t
    BY <1>1, <1>4, <1>8
  <2>2. IsFiniteSet(S)
    BY <2>1, RangeIsFinite
  <2>3. /\ S \subseteq IcTradeDays
        /\ \A d \in IcTradeDays : d \in S <=> a + 1 <= d /\ d <= t
    BY DEF TradeDates
  <2>4. t \in S /\ S \subseteq Int
    <3>1. t \in S
      BY <1>8, <2>1, <2>3
    <3>2. S \subseteq Int
      <4> HIDE DEF S
      <4> QED BY <1>1, <2>3
    <3> QED BY <3>1, <3>2
  <2> HIDE DEF S
  <2>5. PICK e \in S : \A d \in S : e <= d
    BY <2>2, <2>4, FiniteHasExtremes
  <2>6. e \in IcTradeDays /\ e \in Nat /\ a < e /\ e <= t
    BY <1>1, <2>1, <2>3
  <2>7. \A d \in IcTradeDays : a < d => e <= d
    BY <1>1, <2>1, <2>3, <2>5, <2>6
  <2>8. Cardinality(TradeDates(IcTradeDays, a, t)) = Cardinality(TradeDates(IcTradeDays, e, t)) + 1
    BY <2>1, <2>6, <2>7, RangeFromNext
  <2>9. Cardinality(TradeDates(IcTradeDays, a, t)) = IcLag + 1
    BY <1>2, <1>4, <1>8, <2>1
  <2>10. Cardinality(TradeDates(IcTradeDays, e, t)) = IcLag
    BY <1>1, <1>6, <2>6, <2>8, <2>9
  <2> QED BY <1>3, <2>6, <2>7, <2>10
<1>9. ASSUME t \in IcTradeDays, NEW b, Realised(b, t + 1), NEW c \in IcTradeDays, c < b
      PROVE  \E a : Realised(a, t)
  <2> DEFINE S == TradeDates(IcTradeDays, 0, b - 1)
  <2>1. b \in IcTradeDays /\ b \in Nat /\ b <= t /\ c \in Nat
        /\ Cardinality(TradeDates(IcTradeDays, b, t)) = IcLag
    BY <1>1, <1>3, <1>9
  <2>2. IsFiniteSet(S)
    BY <2>1, RangeIsFinite
  <2>3. /\ S \subseteq IcTradeDays
        /\ \A d \in IcTradeDays : d \in S <=> 0 <= d /\ d <= b - 1
    BY DEF TradeDates
  <2>4. c \in S /\ S \subseteq Int
    <3>1. c \in S
      BY <1>9, <2>1, <2>3
    <3>2. S \subseteq Int
      <4> HIDE DEF S
      <4> QED BY <1>1, <2>3
    <3> QED BY <3>1, <3>2
  <2> HIDE DEF S
  <2>5. PICK a \in S : \A d \in S : a >= d
    BY <2>2, <2>4, FiniteHasExtremes
  <2>6. a \in IcTradeDays /\ a \in Nat /\ a < b /\ a < t
    BY <1>1, <2>1, <2>3
  <2>7. \A d \in IcTradeDays : a < d => b <= d
    BY <1>1, <2>1, <2>3, <2>5, <2>6
  <2>8. Cardinality(TradeDates(IcTradeDays, a, t)) = Cardinality(TradeDates(IcTradeDays, b, t)) + 1
    BY <2>1, <2>6, <2>7, RangeFromNext
  <2>9. Cardinality(TradeDates(IcTradeDays, a, t)) = Cardinality(TradeDates(IcTradeDays, a, t - 1)) + 1
    BY <1>2, <1>9, <2>6
  <2>10. Cardinality(TradeDates(IcTradeDays, a, t - 1)) = IcLag
    BY <1>1, <1>6, <2>1, <2>6, <2>8, <2>9
  <2> QED BY <1>4, <2>6, <2>10
<1>10. CASE t \in IcTradeDays /\ \E a : Realised(a, t)
  <2>1. PICK a : Realised(a, t)
    BY <1>10
  <2>2. PICK e \in IcTradeDays : /\ Realised(e, t + 1) /\ a < e
                                 /\ \A d \in IcTradeDays : a < d => e <= d
    BY <1>8, <1>10, <2>1
  <2>3. LastEligible(t) = a /\ LastEligible(t + 1) = e /\ a \in Nat /\ e \in Nat
    BY <1>1, <1>4, <1>5, <2>1, <2>2
  <2> QED BY <1>1, <1>10, <2>2, <2>3
<1>11. CASE t \in IcTradeDays /\ \A a : ~Realised(a, t)
  <2>1. LastEligible(t) = -1
    BY <1>5, <1>11
  <2>2. CASE \E b : Realised(b, t + 1)
    <3>1. PICK b : Realised(b, t + 1)
      BY <2>2
    <3>2. LastEligible(t + 1) = b /\ b \in Nat
      BY <1>1, <1>3, <1>5, <3>1
    <3>3. \A c \in IcTradeDays : ~(c < b)
      BY <1>9, <1>11, <3>1
    <3> QED BY <1>1, <1>11, <2>1, <3>2, <3>3
  <2>3. CASE \A b : ~Realised(b, t + 1)
    <3>1. LastEligible(t + 1) = -1
      BY <1>5, <2>3
    <3> QED BY <1>1, <1>11, <2>1, <3>1
  <2> QED BY <2>2, <2>3
<1> QED BY <1>7, <1>10, <1>11

-----------------------------------------------------------------------------
(* What is still to do: a plan is one day of the window with nothing       *)
(* missing before it, and the days without rows, those planned left out,   *)
(* are no more than the debt.                                              *)
Missed == InWindow(icToday) \ icRows

PlanIsNext ==
    icJob = "working" =>
        /\ ~icWrote
        /\ \E h \in InWindow(icToday) :
              icPlan = {h} /\ \A e \in InWindow(icToday) : e < h => e \in icRows

BacklogIsOwed ==
    /\ icJob = "working" => Cardinality(Missed \ icPlan) <= icDebt
    /\ icJob # "working" => Cardinality(Missed) <= IF icWrote THEN icDebt ELSE icDebt + 1

CatchupInv ==
    /\ icToday \in Nat /\ icDebt \in Nat /\ icWrote \in BOOLEAN
    /\ icJob \in {"waiting", "working", "over"}
    /\ icJob = "waiting" => ~icWrote
    /\ \A d \in icByJob : d \in IcTradeDays /\ d <= LastEligible(icToday)
    /\ NoHoleBehindTheJob
    /\ PlanIsNext
    /\ BacklogIsOwed

(* From one day to the next the window gains at most its new end.          *)
LEMMA WindowMoves ==
  ASSUME IcAssumption, NEW t \in Nat
  PROVE  /\ IsFiniteSet(InWindow(t)) /\ IsFiniteSet(InWindow(t + 1))
         /\ InWindow(t) \subseteq IcTradeDays /\ InWindow(t + 1) \subseteq IcTradeDays
         /\ \A e \in InWindow(t) : e <= LastEligible(t)
         /\ \A e \in InWindow(t + 1) : e <= LastEligible(t) => e \in InWindow(t)
         /\ InWindow(t + 1) \subseteq InWindow(t) \cup {LastEligible(t + 1)}
         /\ t \notin IcTradeDays => InWindow(t + 1) = InWindow(t)
<1> DEFINE a == LastEligible(t)
           b == LastEligible(t + 1)
<1>1. /\ a \in Int /\ b \in Int /\ a <= b /\ (t \notin IcTradeDays => b = a)
      /\ \A d \in IcTradeDays : a < d /\ d <= b => d = b
  BY EligibleMoves
<1>2. InWindow(t) = TradeDates(IcTradeDays, a - IcLookback, a)
      /\ InWindow(t + 1) = TradeDates(IcTradeDays, b - IcLookback, b)
  BY DEF InWindow
<1> HIDE DEF a, b
<1>3. IcLookback \in Nat /\ \A d \in IcTradeDays : d \in Nat
  BY DEF IcAssumption
<1>4. /\ InWindow(t) \subseteq IcTradeDays
      /\ \A e \in IcTradeDays : e \in InWindow(t) <=> a - IcLookback <= e /\ e <= a
      /\ InWindow(t + 1) \subseteq IcTradeDays
      /\ \A e \in IcTradeDays : e \in InWindow(t + 1) <=> b - IcLookback <= e /\ e <= b
  BY <1>2 DEF TradeDates
<1>5. IsFiniteSet(InWindow(t)) /\ IsFiniteSet(InWindow(t + 1))
  <2>1. a - IcLookback \in Int /\ b - IcLookback \in Int
    BY <1>1, <1>3
  <2> QED BY <1>1, <1>2, <2>1, RangeIsFinite
<1>6. \A e \in IcTradeDays : e \in InWindow(t + 1) => e \in InWindow(t) \/ e = b
  BY <1>1, <1>3, <1>4
<1>7. \A e \in IcTradeDays : e \in InWindow(t + 1) /\ e <= a => e \in InWindow(t)
  BY <1>1, <1>3, <1>4
<1>8. \A e \in InWindow(t) : e <= a
  BY <1>4
<1>9. t \notin IcTradeDays => InWindow(t + 1) = InWindow(t)
  BY <1>1, <1>2
<1>10. InWindow(t + 1) \subseteq InWindow(t) \cup {b}
  BY <1>4, <1>6
<1>11. \A e \in InWindow(t + 1) : e <= a => e \in InWindow(t)
  BY <1>4, <1>7
<1> QED BY <1>4, <1>5, <1>8, <1>9, <1>10, <1>11 DEF a, b

(* A set with at most one element more.                                    *)
LEMMA AtMostOneMore ==
  ASSUME NEW A, NEW B, NEW x, IsFiniteSet(B), A \subseteq B \cup {x}
  PROVE  /\ IsFiniteSet(A) /\ Cardinality(A) \in Nat /\ Cardinality(B) \in Nat
         /\ Cardinality(A) <= Cardinality(B) + 1
<1> DEFINE C == B \cup {x}
<1>1. IsFiniteSet(C) /\ Cardinality(C) <= Cardinality(B) + 1
      /\ Cardinality(B) \in Nat
  <2>1. Cardinality(B) \in Nat
    BY FS_CardinalityType
  <2>2. CASE x \in B
    <3>1. C = B
      BY <2>2
    <3> HIDE DEF C
    <3> QED BY <2>1, <3>1
  <2>3. CASE x \notin B
    <3>1. IsFiniteSet(B \cup {x})
      BY FS_AddElement
    <3>2. Cardinality(B \cup {x}) = Cardinality(B) + 1
      BY <2>3, FS_AddElement
    <3> QED BY <2>1, <3>1, <3>2
  <2> QED BY <2>2, <2>3
<1> HIDE DEF C
<1>2. A \subseteq C
  BY DEF C
<1>3. IsFiniteSet(A) /\ Cardinality(A) <= Cardinality(C)
  BY <1>1, <1>2, FS_Subset
<1>4. Cardinality(A) \in Nat /\ Cardinality(C) \in Nat
  BY <1>1, <1>3, FS_CardinalityType
<1> QED BY <1>1, <1>3, <1>4

(* On the first day the window holds its end at most.                      *)
LEMMA CatchupInvInit == IcAssumption /\ IcInit => CatchupInv
<1> SUFFICES ASSUME IcAssumption, IcInit
             PROVE  CatchupInv
  OBVIOUS
<1> DEFINE x == LastEligible(FirstIcDay)
<1>1. /\ icToday = FirstIcDay /\ FirstIcDay \in Nat /\ icByJob = {} /\ icJob = "waiting"
      /\ icWrote = FALSE /\ icDebt = 0 /\ icRows = {d \in IcTradeDays : d < x}
  BY DEF IcInit, IcAssumption
<1>2. /\ InWindow(FirstIcDay) \subseteq IcTradeDays
      /\ \A e \in InWindow(FirstIcDay) : e <= x
  BY <1>1, WindowMoves
<1>3. x \in Int /\ \A d \in IcTradeDays : d \in Nat
  BY <1>1, EligibleMoves DEF IcAssumption
<1> HIDE DEF x
<1>4. Missed \subseteq {x}
  <2> SUFFICES ASSUME NEW e \in Missed
               PROVE  e = x
    OBVIOUS
  <2>1. e \in InWindow(FirstIcDay) /\ e \notin icRows
    BY <1>1 DEF Missed
  <2>2. e \in IcTradeDays /\ e <= x /\ e \in Nat
    BY <1>2, <1>3, <2>1
  <2> QED BY <1>1, <1>3, <2>1, <2>2
<1>5. Cardinality(Missed) <= 1
  <2>1. IsFiniteSet({x}) /\ Cardinality({x}) = 1
    BY FS_Singleton
  <2> QED BY <1>4, <2>1, FS_Subset
<1>6. ~icWrote /\ BacklogIsOwed
  BY <1>1, <1>5 DEF BacklogIsOwed
<1> QED BY <1>1, <1>6 DEF CatchupInv, NoHoleBehindTheJob, PlanIsNext

(* With one day an evening a plan is the oldest day without rows.          *)
LEMMA PlanIsOldest ==
  ASSUME IcAssumption, CatchupMax <= 1, NEW t \in Nat, NEW rows, NEW plan,
         plan = CatchupDates(rows, t)
  PROVE  /\ plan \subseteq InWindow(t) \ rows
         /\ \A h \in plan : /\ plan = {h}
                             /\ \A e \in InWindow(t) : e < h => e \in rows
<1> DEFINE P == InWindow(t) \ rows
<1>1. /\ IsFiniteSet(P) /\ P \subseteq IcTradeDays /\ \A d \in IcTradeDays : d \in Nat
      /\ CatchupMax \in Nat
  <2>1. IsFiniteSet(InWindow(t)) /\ InWindow(t) \subseteq IcTradeDays
    BY WindowMoves
  <2>2. IsFiniteSet(P)
    BY <2>1, FS_Subset
  <2> QED BY <2>1, <2>2 DEF IcAssumption
<1>2. plan = {d \in P : Cardinality({e \in P : e < d}) < CatchupMax}
  BY DEF CatchupDates
<1> HIDE DEF P
<1>3. ASSUME NEW h \in plan, NEW e \in P
      PROVE  ~(e < h)
  <2> DEFINE older == {f \in P : f < h}
  <2>1. IsFiniteSet(older) /\ Cardinality(older) < CatchupMax /\ Cardinality(older) \in Nat
    <3>1. IsFiniteSet(older)
      BY <1>1, FS_Subset
    <3>2. Cardinality(older) < CatchupMax
      BY <1>2
    <3> QED BY <3>1, <3>2, FS_CardinalityType
  <2> HIDE DEF older
  <2>2. Cardinality(older) = 0
    BY <1>1, <2>1
  <2>3. older = {}
    BY <2>1, <2>2, FS_EmptySet
  <2> QED BY <2>3 DEF older
<1>4. plan \subseteq P
  BY <1>2
<1>5. \A h \in plan, g \in plan : g = h
  <2>1. \A h \in plan, g \in plan : ~(g < h) /\ ~(h < g) /\ g \in Nat /\ h \in Nat
    BY <1>1, <1>3, <1>4
  <2> QED BY <2>1
<1>6. \A h \in plan : plan = {h}
  BY <1>5
<1>7. ASSUME NEW h \in plan, NEW e \in InWindow(t), e < h
      PROVE  e \in rows
  BY <1>3, <1>7 DEF P
<1> QED BY <1>4, <1>6, <1>7 DEF P

(* Steps that leave the day, the job and what it wrote alone: rows only    *)
(* come.                                                                   *)
LEMMA RowsCome ==
  ASSUME IcAssumption, CatchupInv, icRows \subseteq icRows',
         UNCHANGED <<icToday, icByJob, icPlan, icJob, icWrote, icDebt>>
  PROVE  CatchupInv'
<1>1. icToday \in Nat /\ icDebt \in Nat
  BY DEF CatchupInv
<1>2. IsFiniteSet(InWindow(icToday)) /\ InWindow(icToday)' = InWindow(icToday)
  BY <1>1, WindowMoves DEF InWindow, LastEligible
<1>3. Missed' \subseteq Missed /\ IsFiniteSet(Missed)
  BY <1>2, FS_Subset DEF Missed
<1>4. /\ Cardinality(Missed') <= Cardinality(Missed)
      /\ Cardinality(Missed' \ icPlan) <= Cardinality(Missed \ icPlan)
      /\ Cardinality(Missed') \in Nat /\ Cardinality(Missed) \in Nat
      /\ Cardinality(Missed' \ icPlan) \in Nat /\ Cardinality(Missed \ icPlan) \in Nat
  <2>1. IsFiniteSet(Missed \ icPlan) /\ Missed' \ icPlan \subseteq Missed \ icPlan
    BY <1>3, FS_Subset
  <2>2. IsFiniteSet(Missed') /\ IsFiniteSet(Missed' \ icPlan)
    BY <1>3, <2>1, FS_Subset
  <2> QED BY <1>3, <2>1, <2>2, FS_Subset, FS_CardinalityType
<1>5. BacklogIsOwed'
  BY <1>1, <1>4 DEF CatchupInv, BacklogIsOwed
<1>6. NoHoleBehindTheJob' /\ PlanIsNext'
  BY <1>2 DEF CatchupInv, NoHoleBehindTheJob, PlanIsNext
<1> QED BY <1>5, <1>6 DEF CatchupInv, LastEligible

(* The evening plans the oldest day that is missing.                       *)
LEMMA PlanKeeps ==
  ASSUME IcAssumption, CatchupMax <= 1, CatchupInv, PlanEvening
  PROVE  CatchupInv'
<1> DEFINE P == CatchupDates(icRows, icToday)
<1>1. /\ icJob = "waiting" /\ icPlan' = P /\ icJob' = IF P = {} THEN "over" ELSE "working"
      /\ UNCHANGED <<icToday, icRows, icByJob, icWrote, icDebt>>
  BY DEF PlanEvening
<1>2. /\ icToday \in Nat /\ icDebt \in Nat /\ ~icWrote /\ icWrote \in BOOLEAN
      /\ Cardinality(Missed) <= icDebt + 1
  BY <1>1 DEF CatchupInv, BacklogIsOwed
<1>3. /\ P \subseteq Missed
      /\ \A h \in P : P = {h} /\ \A e \in InWindow(icToday) : e < h => e \in icRows
  BY <1>2, PlanIsOldest DEF Missed
<1> HIDE DEF P
<1>4. IsFiniteSet(InWindow(icToday)) /\ InWindow(icToday)' = InWindow(icToday)
      /\ LastEligible(icToday)' = LastEligible(icToday) /\ Missed' = Missed
  BY <1>1, <1>2, WindowMoves DEF InWindow, LastEligible, Missed
<1>5. IsFiniteSet(Missed)
  BY <1>4, FS_Subset DEF Missed
<1>6. NoHoleBehindTheJob' /\ PlanIsNext'
  <2>1. NoHoleBehindTheJob'
    BY <1>1, <1>4 DEF CatchupInv, NoHoleBehindTheJob
  <2>2. PlanIsNext'
    <3>1. P # {} => \E h \in P : h \in InWindow(icToday) /\ P = {h}
                               /\ \A e \in InWindow(icToday) : e < h => e \in icRows
      BY <1>3 DEF Missed
    <3> QED BY <1>1, <1>2, <1>4, <3>1 DEF PlanIsNext
  <2> QED BY <2>1, <2>2
<1>7. BacklogIsOwed'
  <2>1. CASE P = {}
    BY <1>1, <1>2, <1>4, <2>1 DEF BacklogIsOwed
  <2>2. CASE P # {}
    <3>1. PICK h \in Missed : P = {h}
      BY <1>3, <2>2
    <3>2. Cardinality(Missed \ {h}) = Cardinality(Missed) - 1 /\ Cardinality(Missed) \in Nat
      BY <1>5, <3>1, FS_RemoveElement, FS_CardinalityType
    <3>3. Cardinality(Missed \ P) <= icDebt
      BY <1>2, <3>1, <3>2
    <3> QED BY <1>1, <1>4, <2>2, <3>3 DEF BacklogIsOwed
  <2> QED BY <2>1, <2>2
<1> QED BY <1>1, <1>2, <1>4, <1>6, <1>7 DEF CatchupInv

(* The end of an evening's only planned day, with its rows or without.     *)
LEMMA PlannedEnds ==
  ASSUME IcAssumption, CatchupInv, icJob = "working", NEW h \in InWindow(icToday), icPlan = {h},
         \A e \in InWindow(icToday) : e < h => e \in icRows,
         icJob' = "over", UNCHANGED <<icToday, icDebt>>,
         \/ UNCHANGED <<icRows, icByJob, icWrote>>
         \/ icRows' = icRows \cup {h} /\ icByJob' = icByJob \cup {h} /\ icWrote' = TRUE
  PROVE  CatchupInv'
<1>1. /\ icToday \in Nat /\ icDebt \in Nat /\ ~icWrote /\ icWrote \in BOOLEAN
      /\ Cardinality(Missed \ {h}) <= icDebt
  BY DEF CatchupInv, BacklogIsOwed, PlanIsNext
<1>2. IsFiniteSet(InWindow(icToday)) /\ InWindow(icToday)' = InWindow(icToday)
      /\ LastEligible(icToday)' = LastEligible(icToday)
      /\ h \in IcTradeDays /\ h <= LastEligible(icToday)
  BY <1>1, WindowMoves DEF InWindow, LastEligible
<1>3. IsFiniteSet(Missed) /\ IsFiniteSet(Missed \ {h})
  BY <1>2, FS_Subset DEF Missed
<1>4. PlanIsNext'
  BY DEF PlanIsNext
<1>5. CASE UNCHANGED <<icRows, icByJob, icWrote>>
  <2>1. Missed' = Missed
    BY <1>2, <1>5 DEF Missed
  <2>2. Cardinality(Missed) <= Cardinality(Missed \ {h}) + 1 /\ Cardinality(Missed) \in Nat
        /\ Cardinality(Missed \ {h}) \in Nat
    <3> DEFINE B == Missed \ {h}
    <3>1. Missed \subseteq B \cup {h} /\ IsFiniteSet(B)
      BY <1>3
    <3> HIDE DEF B
    <3>2. Cardinality(Missed) <= Cardinality(B) + 1 /\ Cardinality(Missed) \in Nat
          /\ Cardinality(B) \in Nat
      BY <3>1, AtMostOneMore
    <3> QED BY <3>2 DEF B
  <2>3. Cardinality(Missed) <= icDebt + 1
    BY <1>1, <2>2
  <2>4. BacklogIsOwed'
    BY <1>1, <1>5, <2>1, <2>3 DEF BacklogIsOwed
  <2>5. NoHoleBehindTheJob'
    BY <1>2, <1>5 DEF CatchupInv, NoHoleBehindTheJob
  <2> QED BY <1>1, <1>2, <1>4, <1>5, <2>4, <2>5 DEF CatchupInv
<1>6. CASE icRows' = icRows \cup {h} /\ icByJob' = icByJob \cup {h} /\ icWrote' = TRUE
  <2>1. Missed' = Missed \ {h}
    BY <1>2, <1>6 DEF Missed
  <2>2. BacklogIsOwed'
    BY <1>1, <1>6, <2>1 DEF BacklogIsOwed
  <2>3. NoHoleBehindTheJob'
    BY <1>2, <1>6 DEF CatchupInv, NoHoleBehindTheJob
  <2>4. \A d \in icByJob' : d \in IcTradeDays /\ d <= LastEligible(icToday)
    BY <1>2, <1>6 DEF CatchupInv
  <2> QED BY <1>1, <1>2, <1>4, <1>6, <2>2, <2>3, <2>4 DEF CatchupInv
<1> QED BY <1>5, <1>6

(* The planned day is computed, or fails.                                  *)
LEMMA ProduceKeeps ==
  ASSUME IcAssumption, CatchupInv, ProduceDay \/ DayFails
  PROVE  CatchupInv'
<1>1. icJob = "working" /\ UNCHANGED <<icToday, icDebt>>
      /\ icPlan' = icPlan \ {Planned} /\ icJob' = IF icPlan' = {} THEN "over" ELSE "working"
  BY DEF ProduceDay, DayFails, NextPlanned
<1>2. PICK h \in InWindow(icToday) :
        icPlan = {h} /\ \A e \in InWindow(icToday) : e < h => e \in icRows
  BY <1>1 DEF CatchupInv, PlanIsNext
<1>3. Planned = h
  BY <1>2 DEF Planned, Min
<1>4. icJob' = "over"
  BY <1>1, <1>2, <1>3
<1>5. \/ UNCHANGED <<icRows, icByJob, icWrote>>
      \/ icRows' = icRows \cup {h} /\ icByJob' = icByJob \cup {h} /\ icWrote' = TRUE
  BY <1>3 DEF ProduceDay, DayFails
<1> QED BY <1>1, <1>2, <1>4, <1>5, PlannedEnds

(* The job dies with its plan.                                             *)
LEMMA DieKeeps ==
  ASSUME IcAssumption, CatchupInv, JobDies
  PROVE  CatchupInv'
<1>1. icJob = "working" /\ icJob' = "over"
      /\ UNCHANGED <<icToday, icDebt, icRows, icByJob, icWrote>>
  BY DEF JobDies
<1>2. PICK h \in InWindow(icToday) :
        icPlan = {h} /\ \A e \in InWindow(icToday) : e < h => e \in icRows
  BY <1>1 DEF CatchupInv, PlanIsNext
<1> QED BY <1>1, <1>2, PlannedEnds

(* A missed evening: without a plan the job is over, and wrote nothing.    *)
LEMMA MissKeeps ==
  ASSUME IcAssumption, CatchupInv, MissEvening
  PROVE  CatchupInv'
<1>1. icJob = "waiting" /\ icJob' = "over"
      /\ UNCHANGED <<icToday, icDebt, icRows, icByJob, icWrote>>
  BY DEF MissEvening
<1>2. Missed' = Missed /\ InWindow(icToday)' = InWindow(icToday)
  BY <1>1 DEF Missed, InWindow, LastEligible
<1>3. BacklogIsOwed'
  BY <1>1, <1>2 DEF CatchupInv, BacklogIsOwed
<1>4. NoHoleBehindTheJob'
  BY <1>1, <1>2 DEF CatchupInv, NoHoleBehindTheJob
<1>5. PlanIsNext'
  BY <1>1 DEF PlanIsNext
<1> QED BY <1>1, <1>3, <1>4, <1>5 DEF CatchupInv, LastEligible

(* The next day begins: the window may gain its end, which the debt of an  *)
(* evening without rows pays for.                                          *)
LEMMA NextIcDayKeeps ==
  ASSUME IcAssumption, CatchupInv, NextIcDay
  PROVE  CatchupInv'
<1> DEFINE W == InWindow(icToday)
           V == InWindow(icToday + 1)
           x == LastEligible(icToday + 1)
<1>1. /\ icJob = "over" /\ icToday' = icToday + 1 /\ icJob' = "waiting" /\ icWrote' = FALSE
      /\ icDebt' = IF icToday \in IcTradeDays
                   THEN IF icWrote THEN icDebt ELSE icDebt + 1
                   ELSE IF icWrote /\ icDebt > 0 THEN icDebt - 1 ELSE icDebt
      /\ UNCHANGED <<icRows, icByJob>>
  BY DEF NextIcDay
<1>2. /\ icToday \in Nat /\ icDebt \in Nat /\ icWrote \in BOOLEAN
      /\ Cardinality(Missed) <= IF icWrote THEN icDebt ELSE icDebt + 1
      /\ \A d \in icByJob : d \in IcTradeDays /\ d <= LastEligible(icToday)
  BY <1>1 DEF CatchupInv, BacklogIsOwed
<1>3. /\ LastEligible(icToday) \in Int /\ x \in Int /\ LastEligible(icToday) <= x
      /\ \A d \in IcTradeDays : d \in Nat
  BY <1>2, EligibleMoves DEF IcAssumption
<1>4. /\ IsFiniteSet(W) /\ W \subseteq IcTradeDays /\ V \subseteq IcTradeDays
      /\ \A e \in V : e <= LastEligible(icToday) => e \in W
      /\ V \subseteq W \cup {x}
      /\ icToday \notin IcTradeDays => V = W
  BY <1>2, WindowMoves
<1>5. InWindow(icToday)' = V /\ LastEligible(icToday)' = x
  BY <1>1 DEF InWindow, LastEligible
<1>6. Missed = W \ icRows /\ Missed' = V \ icRows
  BY <1>1, <1>5 DEF Missed
<1> HIDE DEF W, V, x
<1>7. /\ IsFiniteSet(Missed) /\ Missed' \subseteq Missed \cup {x}
      /\ icToday \notin IcTradeDays => Missed' = Missed
  BY <1>4, <1>6, FS_Subset
<1>8. /\ Cardinality(Missed') \in Nat /\ Cardinality(Missed) \in Nat
      /\ Cardinality(Missed') <= Cardinality(Missed) + 1
  BY <1>7, AtMostOneMore
<1>9. icDebt' \in Nat /\ Cardinality(Missed') <= icDebt' + 1
  <2>1. CASE icToday \in IcTradeDays
    BY <1>1, <1>2, <1>8, <2>1
  <2>2. CASE icToday \notin IcTradeDays
    BY <1>1, <1>2, <1>7, <1>8, <2>2
  <2> QED BY <2>1, <2>2
<1>10. BacklogIsOwed'
  BY <1>1, <1>9 DEF BacklogIsOwed
<1>11. NoHoleBehindTheJob'
  <2> SUFFICES ASSUME NEW d \in icByJob, NEW e \in V, e < d
               PROVE  e \in icRows
    BY <1>1, <1>5 DEF NoHoleBehindTheJob
  <2>1. e \in Nat /\ d \in Nat /\ d <= LastEligible(icToday)
    BY <1>2, <1>3, <1>4
  <2>2. e \in W
    BY <1>3, <1>4, <2>1
  <2> QED BY <2>2 DEF CatchupInv, NoHoleBehindTheJob, W
<1>12. \A d \in icByJob' : d \in IcTradeDays /\ d <= LastEligible(icToday)'
  <2> SUFFICES ASSUME NEW d \in icByJob
               PROVE  d \in IcTradeDays /\ d <= x
    BY <1>1, <1>5
  <2>1. d \in IcTradeDays /\ d \in Nat /\ d <= LastEligible(icToday)
    BY <1>2, <1>3
  <2> QED BY <1>3, <2>1
<1>13. PlanIsNext'
  BY <1>1 DEF PlanIsNext
<1>14. /\ icToday' \in Nat /\ icWrote' \in BOOLEAN /\ ~icWrote'
       /\ icJob' \in {"waiting", "working", "over"}
  <2>1. icWrote' = FALSE /\ icToday' = icToday + 1 /\ icJob' = "waiting" /\ icToday \in Nat
    BY <1>1, <1>2
  <2>2. icWrote' \in BOOLEAN /\ ~icWrote'
    BY <2>1, Zenon
  <2>3. icToday' \in Nat
    BY <2>1
  <2>4. icJob' \in {"waiting", "working", "over"}
    BY <2>1
  <2> QED BY <2>2, <2>3, <2>4, Zenon
<1> QED BY <1>9, <1>10, <1>11, <1>12, <1>13, <1>14 DEF CatchupInv

(* Every step keeps it.                                                    *)
LEMMA CatchupInvStep ==
  ASSUME IcAssumption, CatchupMax <= 1, CatchupInv, [IcNext]_icVars
  PROVE  CatchupInv'
<1>1. CASE PlanEvening
  BY <1>1, PlanKeeps
<1>2. CASE MissEvening
  BY <1>2, MissKeeps
<1>3. CASE ProduceDay \/ DayFails
  BY <1>3, ProduceKeeps
<1>4. CASE JobDies
  BY <1>4, DieKeeps
<1>5. CASE NextIcDay
  BY <1>5, NextIcDayKeeps
<1>6. ASSUME NEW d, QuotesArrive(d) \/ ImportIc(d)
      PROVE  CatchupInv'
  BY <1>6, RowsCome DEF QuotesArrive, ImportIc
<1>7. CASE UNCHANGED icVars
  BY <1>7, RowsCome DEF icVars
<1> QED BY <1>1, <1>2, <1>3, <1>4, <1>5, <1>6, <1>7 DEF IcNext

(* With one day an evening, as the scheduler has it, no day before one the *)
(* job wrote stays without rows, and the backlog is no larger than the     *)
(* evenings that wrote nothing: for any calendar, lag, look-back, number   *)
(* of failures and imports.                                                *)
THEOREM CatchUpHoldsPace ==
  ASSUME CatchupMax <= 1
  PROVE  IcSpec => []CatchUpKeepsItsPromise
<1>1. IcInit => CatchupInv
  BY IcAssumption, CatchupInvInit
<1>2. CatchupInv /\ [IcNext]_icVars => CatchupInv'
  BY IcAssumption, CatchupInvStep
<1>3. CatchupInv => CatchUpKeepsItsPromise
  BY DEF CatchupInv, BacklogIsOwed, CatchUpKeepsItsPromise, KeepsPace, Missed
<1> QED BY <1>1, <1>2, <1>3, PTL DEF IcSpec

-----------------------------------------------------------------------------
(***************************************************************************)
(* MarketDebounce: a switch of the market state is confirmed by a full run *)
(* of equal raw states, over any number of days and any order in which the *)
(* days are identified.                                                    *)
(***************************************************************************)
\* Day i is the last one up to day d, none before `from`, that ends a full run.
LastHeld(from, i, d) ==
    /\ i \in from..d /\ HeldLongEnough(i)
    /\ \A j \in (i + 1)..d : ~ HeldLongEnough(j)

FirstHeldDay(d) == FirstValidDay(d) + DebounceDays - 1

\* A stored state is that of the last run its window holds, if it holds one.
RowsAreOfLastRun ==
    \A d \in MarketDays : stateRows[d] # NoState =>
        /\ d <= Len(rawStates)
        /\ \A i \in FirstHeldDay(d)..d : LastHeld(FirstHeldDay(d), i, d) => stateRows[d] = rawStates[i]

\* What was told was confirmed on its day.
ToldWasHeld ==
    \A t \in switchesTold : /\ t.day \in 1..Len(rawStates)
                            /\ HeldLongEnough(t.day) /\ t.new = rawStates[t.day]

MarketShape == /\ rawStates \in Seq(RawStates) /\ Len(rawStates) <= LastMarketDay
               /\ \E g : stateRows = [d \in MarketDays |-> g[d]]

MarketInv == MarketShape /\ RowsAreOfLastRun /\ ToldWasHeld

(* The windows move forward with their day.                                *)
LEMMA WindowsMove ==
  ASSUME MarketAssumption, NEW d \in Nat \ {0}
  PROVE  /\ FirstValidDay(d) \in Nat \ {0} /\ FirstHeldDay(d) \in Nat \ {0}
         /\ d > 1 => FirstHeldDay(d - 1) <= FirstHeldDay(d)
<1> USE DEF MarketAssumption
<1>1. \A x \in Int : Max({1, x}) = IF x > 1 THEN x ELSE 1
  <2> TAKE x \in Int
  <2>1. IsFiniteSet({1, x}) /\ {1, x} \subseteq Int /\ {1, x} # {}
    <3>1. IsFiniteSet({1})
      BY FS_Singleton
    <3>2. IsFiniteSet({1} \cup {x}) /\ {1} \cup {x} = {1, x}
      BY <3>1, FS_AddElement
    <3> QED BY <3>2
  <2>2. Max({1, x}) \in {1, x} /\ \A y \in {1, x} : y <= Max({1, x})
    BY <2>1, MaxOfFinite
  <2> QED BY <2>2
<1>2. FirstOhlcvDay(d) \in Nat \ {0} /\ (d > 1 => FirstOhlcvDay(d - 1) <= FirstOhlcvDay(d))
  BY <1>1 DEF FirstOhlcvDay
<1>3. d > 1 => FirstOhlcvDay(d - 1) \in Nat
  BY <1>1 DEF FirstOhlcvDay
<1> QED BY <1>2, <1>3 DEF FirstValidDay, FirstHeldDay

(* In a window, a run that ends on a day is one that the days hold.        *)
LEMMA RunIsHeld ==
  ASSUME MarketAssumption, NEW first \in Nat \ {0}, NEW e \in Nat
  PROVE  RunEndsOn(first, e) <=> e >= first + DebounceDays - 1 /\ HeldLongEnough(e)
<1> DEFINE run == (e - DebounceDays + 1)..e
           T == {rawStates[i] : i \in run}
<1> USE DEF MarketAssumption
<1>1. e \in run /\ rawStates[e] \in T
  OBVIOUS
<1>2. IsFiniteSet(run)
  BY FS_Interval
<1>3. IsFiniteSet(T)
  BY <1>2, ImageIsFinite
<1>4. Cardinality(T) = 1 <=> \E x : T = {x}
  BY <1>3, FS_Singleton
<1>5. Cardinality(T) = 1 <=> \A i \in run : rawStates[i] = rawStates[e]
  <2>1. ASSUME NEW x, T = {x}, NEW i \in run PROVE rawStates[i] = rawStates[e]
    BY <1>1, <2>1
  <2>2. ASSUME \A i \in run : rawStates[i] = rawStates[e] PROVE T = {rawStates[e]}
    BY <1>1, <2>2
  <2> HIDE DEF T, run
  <2> QED BY <1>4, <2>1, <2>2
<1>6. HeldLongEnough(e) <=> e >= DebounceDays /\ Cardinality(T) = 1
  BY DEF HeldLongEnough
<1>7. RunEndsOn(first, e) <=> e - DebounceDays + 1 >= first /\ \A i \in run : rawStates[i] = rawStates[e]
  BY DEF RunEndsOn
<1> HIDE DEF T, run
<1>8. e - DebounceDays + 1 >= first <=> e >= first + DebounceDays - 1
  OBVIOUS
<1>9. e >= first + DebounceDays - 1 => e >= DebounceDays
  OBVIOUS
<1> QED BY <1>5, <1>6, <1>7, <1>8, <1>9

-----------------------------------------------------------------------------
\* The function apply_debounce folds.
Carries(f, first, d, p) ==
    f = [e \in (first - 1)..d |->
            IF e < first THEN p
            ELSE IF RunEndsOn(first, e) THEN rawStates[e] ELSE f[e - 1]]

(* There is one: the state of the last run so far.                         *)
LEMMA CarryExists ==
  ASSUME NEW first \in Nat \ {0}, NEW d \in Nat, NEW p
  PROVE  \E f : Carries(f, first, d, p)
<1> DEFINE Ends(e) == {i \in first..e : RunEndsOn(first, i)}
           h == [e \in (first - 1)..d |-> IF Ends(e) = {} THEN p ELSE rawStates[Max(Ends(e))]]
<1>1. ASSUME NEW e \in (first - 1)..d
      PROVE  h[e] = IF e < first THEN p
                    ELSE IF RunEndsOn(first, e) THEN rawStates[e] ELSE h[e - 1]
  <2>1. CASE e < first
    <3>1. Ends(e) = {}
      BY <2>1
    <3> QED BY <2>1, <3>1
  <2>2. CASE e >= first /\ RunEndsOn(first, e)
    <3>1. e \in Ends(e) /\ Ends(e) \subseteq Int
      BY <2>2
    <3>2. IsFiniteSet(Ends(e))
      <4>1. IsFiniteSet(first..e)
        BY FS_Interval
      <4> QED BY <4>1, FS_Subset
    <3>3. Max(Ends(e)) \in Ends(e) /\ \A y \in Ends(e) : y <= Max(Ends(e))
      BY <3>1, <3>2, MaxOfFinite
    <3>4. Max(Ends(e)) = e
      BY <3>1, <3>3
    <3>5. h[e] = rawStates[e]
      BY <3>1, <3>4
    <3> QED BY <2>2, <3>5
  <2>3. CASE e >= first /\ ~ RunEndsOn(first, e)
    <3>1. e - 1 \in (first - 1)..d
      BY <2>3
    <3>2. Ends(e) = Ends(e - 1)
      BY <2>3
    <3>3. h[e] = h[e - 1]
      BY <3>1, <3>2
    <3> HIDE DEF h
    <3> QED BY <2>3, <3>3
  <2> QED BY <2>1, <2>2, <2>3
<1>2. h = [e \in (first - 1)..d |-> h[e]]
  OBVIOUS
<1> HIDE DEF h
<1>3. [e \in (first - 1)..d |-> h[e]] =
      [e \in (first - 1)..d |-> IF e < first THEN p
                                ELSE IF RunEndsOn(first, e) THEN rawStates[e] ELSE h[e - 1]]
  BY <1>1
<1>4. Carries(h, first, d, p)
  BY <1>2, <1>3 DEF Carries
<1> QED BY <1>4

\* Row i ends the last run up to row e.
LastEnd(first, i, e) ==
    RunEndsOn(first, i) /\ \A j \in (i + 1)..e : ~ RunEndsOn(first, j)

(* What it says on a day is the state of the last run up to that day.      *)
LEMMA CarryIsLast ==
  ASSUME NEW f, NEW first \in Nat \ {0}, NEW d \in Nat, NEW p, Carries(f, first, d, p),
         NEW i \in first..d, NEW e \in i..d, LastEnd(first, i, e)
  PROVE  f[e] = rawStates[i]
<1> DEFINE Bad == {n \in i..e : f[n] # rawStates[i]}
<1>0. \A n \in first..d : f[n] = IF RunEndsOn(first, n) THEN rawStates[n] ELSE f[n - 1]
  <2>1. \A n \in (first - 1)..d :
           f[n] = IF n < first THEN p
                  ELSE IF RunEndsOn(first, n) THEN rawStates[n] ELSE f[n - 1]
    BY DEF Carries
  <2> QED BY <2>1
<1>1. ASSUME Bad # {} PROVE FALSE
  <2>1. PICK n \in Bad : \A m \in Bad : n <= m
    <3>1. Bad \in SUBSET Nat
      OBVIOUS
    <3> QED BY <1>1, <3>1, NatIsWellOrdered
  <2>2. n # i
    BY <1>0, <2>1 DEF LastEnd
  <2>3. f[n] = f[n - 1]
    BY <1>0, <2>1, <2>2 DEF LastEnd
  <2>4. n - 1 \in i..e /\ n - 1 \notin Bad
    BY <2>1, <2>2
  <2> QED BY <2>1, <2>3, <2>4
<1> QED BY <1>1

(* What identify finds on the day itself: the state of the last run of the *)
(* window, and a change only on a day that ends one.                       *)
LEMMA ConfirmedIs ==
  ASSUME MarketAssumption, NEW d \in Nat \ {0}, FirstValidDay(d) <= d
  PROVE  /\ \A i \in FirstHeldDay(d)..d : LastHeld(FirstHeldDay(d), i, d) => Confirmed(d)[d] = rawStates[i]
         /\ Confirmed(d)[d] # Confirmed(d)[d - 1] =>
              HeldLongEnough(d) /\ Confirmed(d)[d] = rawStates[d]
<1> DEFINE first == FirstValidDay(d)
           f == Confirmed(d)
           p == PrevConfirmed(d)
<1>1. first \in Nat \ {0}
  BY WindowsMove
<1>2. f = CHOOSE g : Carries(g, first, d, p)
  BY DEF Confirmed, Carries
<1>3. Carries(f, first, d, p)
  <2> HIDE DEF first, f, p
  <2> QED BY <1>1, <1>2, CarryExists
<1>4. \A i \in Nat : RunEndsOn(first, i) <=> i >= FirstHeldDay(d) /\ HeldLongEnough(i)
  BY <1>1, RunIsHeld DEF FirstHeldDay
<1>5. FirstHeldDay(d) >= first
  BY <1>1 DEF FirstHeldDay, MarketAssumption
<1> HIDE DEF f, p
<1>6. ASSUME NEW i \in FirstHeldDay(d)..d, LastHeld(FirstHeldDay(d), i, d)
      PROVE  f[d] = rawStates[i]
  <2>1. i \in first..d /\ d \in i..d /\ FirstHeldDay(d) \in Nat
    BY <1>1, <1>5, WindowsMove
  <2>2. LastEnd(first, i, d)
    BY <1>1, <1>4, <1>6, <2>1 DEF LastHeld, LastEnd
  <2>3. d \in Nat
    OBVIOUS
  <2> HIDE DEF first
  <2> QED BY <1>1, <1>3, <2>1, <2>2, <2>3, CarryIsLast
<1>7. ASSUME f[d] # f[d - 1] PROVE HeldLongEnough(d) /\ f[d] = rawStates[d]
  <2>1. d \in (first - 1)..d /\ ~ (d < first)
    BY <1>1
  <2>2. f[d] = IF RunEndsOn(first, d) THEN rawStates[d] ELSE f[d - 1]
    BY <1>3, <2>1 DEF Carries
  <2> QED BY <1>4, <1>7, <2>2
<1> QED BY <1>6, <1>7 DEF f

-----------------------------------------------------------------------------
(* A day that closes changes nothing about the days before it.             *)
LEMMA CloseKeepsMarket ==
  ASSUME MarketAssumption, MarketInv, NEW raw \in RawStates, CloseMarket(raw)
  PROVE  MarketInv'
<1> USE DEF MarketAssumption
<1>1. /\ rawStates \in Seq(RawStates) /\ rawStates' = Append(rawStates, raw)
      /\ UNCHANGED <<stateRows, switchesTold>>
  BY DEF CloseMarket, MarketInv, MarketShape
<1>2. /\ Len(rawStates) \in Nat /\ Len(rawStates') = Len(rawStates) + 1
      /\ rawStates' \in Seq(RawStates)
      /\ \A i \in 1..Len(rawStates) : rawStates'[i] = rawStates[i]
  BY <1>1
<1>3. ASSUME NEW e \in 1..Len(rawStates) PROVE HeldLongEnough(e)' <=> HeldLongEnough(e)
  <2>1. CASE e < DebounceDays
    BY <1>2, <2>1 DEF HeldLongEnough
  <2>2. CASE e >= DebounceDays
    <3>1. \A i \in (e - DebounceDays + 1)..e : rawStates'[i] = rawStates[i]
      BY <1>2, <2>2
    <3>2. {rawStates'[i] : i \in (e - DebounceDays + 1)..e} =
          {rawStates[i] : i \in (e - DebounceDays + 1)..e}
      BY <3>1
    <3> QED BY <3>2 DEF HeldLongEnough
  <2> QED BY <1>2, <2>1, <2>2
<1>4. RowsAreOfLastRun'
  <2> SUFFICES ASSUME NEW d \in MarketDays, stateRows[d] # NoState
               PROVE  /\ d <= Len(rawStates')
                      /\ \A i \in FirstHeldDay(d)..d :
                            LastHeld(FirstHeldDay(d), i, d)' => stateRows[d] = rawStates'[i]
    BY <1>1 DEF RowsAreOfLastRun, FirstHeldDay, FirstValidDay, FirstOhlcvDay, MarketDays
  <2>1. d \in 1..Len(rawStates) /\ FirstHeldDay(d) \in Nat \ {0}
    BY <1>2, WindowsMove DEF MarketInv, RowsAreOfLastRun, MarketDays
  <2>2. ASSUME NEW i \in FirstHeldDay(d)..d, LastHeld(FirstHeldDay(d), i, d)'
        PROVE  stateRows[d] = rawStates'[i]
    <3>1. i \in 1..Len(rawStates) /\ \A j \in (i + 1)..d : j \in 1..Len(rawStates)
      BY <1>2, <2>1
    <3>2. LastHeld(FirstHeldDay(d), i, d)
      BY <1>3, <2>2, <3>1 DEF LastHeld
    <3> QED BY <1>2, <3>1, <3>2 DEF MarketInv, RowsAreOfLastRun
  <2> QED BY <1>2, <2>1, <2>2
<1>5. ToldWasHeld'
  BY <1>1, <1>2, <1>3 DEF MarketInv, ToldWasHeld
<1>6. MarketShape'
  BY <1>1, <1>2 DEF CloseMarket, MarketInv, MarketShape, MarketDays
<1> QED BY <1>4, <1>5, <1>6 DEF MarketInv

(* Identifying a day stores the state of the last run its window holds.    *)
LEMMA IdentifyKeepsMarket ==
  ASSUME MarketAssumption, MarketInv, NEW d \in MarketDays, IdentifyMarket(d)
  PROVE  MarketInv'
<1> DEFINE new == Confirmed(d)[d]
<1>1. /\ d \in 1..Len(rawStates) /\ FirstValidDay(d) <= d /\ UNCHANGED rawStates
      /\ stateRows' = [stateRows EXCEPT ![d] = new]
      /\ \/ switchesTold' = switchesTold
         \/ /\ new # Confirmed(d)[d - 1]
            /\ switchesTold' = switchesTold \cup {[day |-> d, old |-> PrevConfirmed(d), new |-> new]}
  BY DEF IdentifyMarket
<1>2. /\ \A i \in FirstHeldDay(d)..d : LastHeld(FirstHeldDay(d), i, d) => new = rawStates[i]
      /\ new # Confirmed(d)[d - 1] => HeldLongEnough(d) /\ new = rawStates[d]
  BY <1>1, ConfirmedIs DEF MarketDays
<1> HIDE DEF new
<1>3. /\ DOMAIN stateRows = MarketDays /\ stateRows'[d] = new
      /\ \A c \in MarketDays \ {d} : stateRows'[c] = stateRows[c]
      /\ MarketShape'
  <2>1. PICK g : stateRows = [c \in MarketDays |-> g[c]]
    BY DEF MarketInv, MarketShape
  <2>2. stateRows' = [c \in MarketDays |-> IF c = d THEN new ELSE g[c]]
    BY <1>1, <2>1
  <2> DEFINE h == [c \in MarketDays |-> IF c = d THEN new ELSE g[c]]
  <2>3. stateRows' = [c \in MarketDays |-> h[c]]
    BY <2>2
  <2> HIDE DEF h
  <2>4. MarketShape'
    BY <1>1, <2>3 DEF MarketInv, MarketShape, MarketDays
  <2> QED BY <2>1, <2>2, <2>4
<1>4. RowsAreOfLastRun'
  <2> SUFFICES ASSUME NEW c \in MarketDays, stateRows'[c] # NoState
               PROVE  /\ c <= Len(rawStates')
                      /\ \A i \in FirstHeldDay(c)..c :
                            LastHeld(FirstHeldDay(c), i, c)' => stateRows'[c] = rawStates'[i]
    BY DEF RowsAreOfLastRun, FirstHeldDay, FirstValidDay, FirstOhlcvDay, MarketDays
  <2>0. \A i : LastHeld(FirstHeldDay(c), i, c)' <=> LastHeld(FirstHeldDay(c), i, c)
    BY <1>1 DEF LastHeld, HeldLongEnough, FirstHeldDay, FirstValidDay, FirstOhlcvDay
  <2>1. CASE c = d
    BY <1>1, <1>2, <1>3, <2>0, <2>1
  <2>2. CASE c # d
    BY <1>1, <1>3, <2>0, <2>2 DEF MarketInv, RowsAreOfLastRun
  <2> QED BY <2>1, <2>2
<1>5. ToldWasHeld'
  <2> SUFFICES ASSUME NEW t \in switchesTold'
               PROVE  t.day \in 1..Len(rawStates) /\ HeldLongEnough(t.day) /\ t.new = rawStates[t.day]
    BY <1>1 DEF ToldWasHeld, HeldLongEnough
  <2>1. CASE t \in switchesTold
    BY <2>1 DEF MarketInv, ToldWasHeld
  <2>2. CASE t \notin switchesTold
    BY <1>1, <1>2, <2>2
  <2> QED BY <2>1, <2>2
<1> QED BY <1>3, <1>4, <1>5 DEF MarketInv

(* Nothing is stored or told at first.                                     *)
LEMMA MarketInvInit == MarketAssumption /\ MarketInit => MarketInv
<1> SUFFICES ASSUME MarketAssumption, MarketInit PROVE MarketInv
  OBVIOUS
<1>1. stateRows = [d \in MarketDays |-> [c \in MarketDays |-> NoState][d]]
  BY DEF MarketInit
<1>2. MarketShape
  <2>1. rawStates \in Seq(RawStates) /\ Len(rawStates) <= LastMarketDay
    BY DEF MarketInit, MarketAssumption
  <2> QED BY <1>1, <2>1 DEF MarketShape
<1>3. RowsAreOfLastRun /\ ToldWasHeld
  BY DEF MarketInit, RowsAreOfLastRun, ToldWasHeld
<1> QED BY <1>2, <1>3 DEF MarketInv

(* The invariant says what the property says: of two days in a row, the    *)
(* windows hold the same last run unless the later day ends one.           *)
LEMMA MarketInvConfirms == MarketAssumption /\ MarketInv => SwitchIsConfirmed
<1> SUFFICES ASSUME MarketAssumption, MarketInv PROVE SwitchIsConfirmed
  OBVIOUS
<1>1. ASSUME NEW d \in 2..Len(rawStates), stateRows[d] # NoState, stateRows[d - 1] # NoState,
             stateRows[d] # stateRows[d - 1],
             NEW e \in FirstHeldDay(d)..d, HeldLongEnough(e)
      PROVE  HeldLongEnough(d) /\ stateRows[d] = rawStates[d]
  <2>0. Len(rawStates) \in Nat
    BY DEF MarketInv, MarketShape
  <2>1. d \in Nat \ {0} /\ d > 1 /\ d - 1 \in Nat \ {0}
    BY <2>0
  <2>2. /\ FirstHeldDay(d) \in Nat \ {0} /\ FirstHeldDay(d - 1) \in Nat \ {0}
        /\ FirstHeldDay(d - 1) <= FirstHeldDay(d)
    BY <2>1, WindowsMove
  <2> DEFINE T == {i \in FirstHeldDay(d)..d : HeldLongEnough(i)}
  <2>3. IsFiniteSet(T) /\ T \subseteq Int /\ T # {}
    <3>1. IsFiniteSet(FirstHeldDay(d)..d)
      BY <2>1, <2>2, FS_Interval
    <3>2. IsFiniteSet(T)
      BY <3>1, FS_Subset
    <3> QED BY <1>1, <3>2
  <2>4. Max(T) \in T /\ \A y \in T : y <= Max(T)
    <3> HIDE DEF T
    <3> QED BY <2>3, MaxOfFinite
  <2>5. PICK i \in T : \A y \in T : y <= i
    BY <2>4
  <2>6. LastHeld(FirstHeldDay(d), i, d)
    BY <2>1, <2>2, <2>5 DEF LastHeld
  <2>7. d \in MarketDays /\ d - 1 \in MarketDays
    BY <2>0, <2>1 DEF MarketInv, MarketShape, MarketDays, MarketAssumption
  <2>8. stateRows[d] = rawStates[i]
    BY <1>1, <2>5, <2>6, <2>7 DEF MarketInv, RowsAreOfLastRun
  <2>9. CASE i = d
    BY <2>5, <2>8, <2>9
  <2>10. CASE i # d
    <3>1. i \in FirstHeldDay(d - 1)..(d - 1)
      BY <2>1, <2>2, <2>5, <2>10
    <3>2. LastHeld(FirstHeldDay(d - 1), i, d - 1)
      BY <2>1, <2>2, <2>5, <3>1 DEF LastHeld
    <3>3. stateRows[d - 1] = rawStates[i]
      BY <1>1, <2>7, <3>1, <3>2 DEF MarketInv, RowsAreOfLastRun
    <3> QED BY <1>1, <2>8, <3>3
  <2> QED BY <2>9, <2>10
<1>2. \A t \in switchesTold : HeldLongEnough(t.day) /\ t.new = rawStates[t.day]
  BY DEF MarketInv, ToldWasHeld
<1> QED BY <1>1, <1>2 DEF SwitchIsConfirmed, FirstHeldDay

(* Every step keeps the invariant.                                         *)
LEMMA MarketInvStep == MarketAssumption /\ MarketInv /\ [MarketNext]_marketVars => MarketInv'
<1> SUFFICES ASSUME MarketAssumption, MarketInv, [MarketNext]_marketVars PROVE MarketInv'
  OBVIOUS
<1>1. ASSUME NEW raw \in RawStates, CloseMarket(raw) PROVE MarketInv'
  BY <1>1, CloseKeepsMarket
<1>2. ASSUME NEW d \in MarketDays, IdentifyMarket(d) PROVE MarketInv'
  BY <1>2, IdentifyKeepsMarket
<1>3. ASSUME UNCHANGED marketVars PROVE MarketInv'
  <2>0. UNCHANGED <<rawStates, stateRows, switchesTold>>
    BY <1>3 DEF marketVars
  <2>1. MarketShape' /\ ToldWasHeld'
    <3>1. MarketShape'
      BY <2>0, Zenon DEF MarketInv, MarketShape, MarketDays
    <3>2. \A e : HeldLongEnough(e)' <=> HeldLongEnough(e)
      BY <2>0 DEF HeldLongEnough
    <3>3. ToldWasHeld'
      BY <2>0, <3>2 DEF MarketInv, ToldWasHeld
    <3> QED BY <3>1, <3>3
  <2>2. \A d, i : LastHeld(FirstHeldDay(d), i, d)' <=> LastHeld(FirstHeldDay(d), i, d)
    BY <2>0 DEF LastHeld, HeldLongEnough, FirstHeldDay, FirstValidDay, FirstOhlcvDay
  <2>3. RowsAreOfLastRun'
    <3> SUFFICES ASSUME NEW d \in MarketDays, stateRows[d] # NoState
                 PROVE  /\ d <= Len(rawStates)
                        /\ \A i \in FirstHeldDay(d)..d :
                              LastHeld(FirstHeldDay(d), i, d)' => stateRows[d] = rawStates[i]
      BY <2>0 DEF RowsAreOfLastRun, FirstHeldDay, FirstValidDay, FirstOhlcvDay, MarketDays
    <3> QED BY <2>2 DEF MarketInv, RowsAreOfLastRun
  <2> QED BY <2>1, <2>3 DEF MarketInv
<1> QED BY <1>1, <1>2, <1>3 DEF MarketNext

(* The stored state of the market switches only on a day that completes a  *)
(* full run of equal raw states, and no switch is announced on another     *)
(* day, for any window, warm-up and debounce, whatever the order in which  *)
(* the days are identified.                                                *)
THEOREM SwitchesAreConfirmed == MarketSpec => []SwitchIsConfirmed
<1>1. MarketInit => MarketInv
  BY MarketAssumption, MarketInvInit
<1>2. MarketInv /\ [MarketNext]_marketVars => MarketInv'
  BY MarketAssumption, MarketInvStep
<1>3. MarketInv => SwitchIsConfirmed
  BY MarketAssumption, MarketInvConfirms
<1> QED BY <1>1, <1>2, <1>3, PTL DEF MarketSpec

-----------------------------------------------------------------------------
(***************************************************************************)
(* PitFinancials and PitMarket: what the back-test reads is what the live  *)
(* scoring could have read, for any rows, days, periods and windows.  Of   *)
(* the rows only this is needed: each key once.                            *)
(***************************************************************************)
RowsKeyed ==
    /\ IsFiniteSet(finRows)
    /\ \A r \in finRows : r.period \in PitPeriods /\ r.publish \in PitDays
    /\ \A r, s \in finRows : r.period = s.period /\ r.publish = s.publish => r = s
ForecastKeyed == DOMAIN forecastOf = PitPeriods \X Sources

(* The last row of a frame is one of its rows, and every other sorts before.*)
LEMMA LastRow ==
  ASSUME RowsKeyed, NEW rows, rows \subseteq finRows, rows # {}
  PROVE  /\ LastOf(rows) \in rows
         /\ \A s \in rows : s.publish <= LastOf(rows).publish
<1> DEFINE T == {<<r.publish, r.period>> : r \in rows}
<1>0. \A r \in rows : r.publish \in Int /\ r.period \in Int
  <2>1. \A p \in PitPeriods, q \in PitDays : p \in Int /\ q \in Int
    BY PitAssumption DEF PitDays
  <2> QED BY <2>1 DEF RowsKeyed
<1>1. IsFiniteSet(T)
  <2> DEFINE f == [r \in rows |-> <<r.publish, r.period>>]
  <2>1. IsFiniteSet(rows)
    BY FS_Subset, Zenon DEF RowsKeyed
  <2>2. IsFiniteSet({f[r] : r \in rows})
    <3> HIDE DEF f
    <3> QED BY <2>1, ImageIsFinite
  <2>3. T = {f[r] : r \in rows}
    OBVIOUS
  <2> HIDE DEF T
  <2> QED BY <2>2, <2>3
<1>2. T \subseteq Int \X Int /\ T # {}
  <2>1. ASSUME NEW r \in rows PROVE <<r.publish, r.period>> \in Int \X Int
    BY <1>0
  <2> QED BY <2>1
<1>3. PICK m \in T : \A x \in T : x[1] < m[1] \/ (x[1] = m[1] /\ x[2] <= m[2])
  <2> HIDE DEF T
  <2> QED BY <1>1, <1>2, LastInDictionary
<1>4. PICK r \in rows : m = <<r.publish, r.period>>
  BY <1>3
<1>5. \A s \in rows : s.publish < r.publish \/ (s.publish = r.publish /\ s.period <= r.period)
  <2> SUFFICES ASSUME NEW s \in rows
               PROVE  s.publish < r.publish \/ (s.publish = r.publish /\ s.period <= r.period)
    OBVIOUS
  <2> DEFINE x == <<s.publish, s.period>>
  <2>1. x \in T /\ x[1] = s.publish /\ x[2] = s.period /\ m[1] = r.publish /\ m[2] = r.period
    BY <1>4
  <2> HIDE DEF x, T
  <2> QED BY <1>3, <2>1
<1>6. \A s \in rows : s.period \in Int /\ s.publish \in Int
  BY <1>0
<1>7. \A s \in rows \ {r} : SortsBefore(s, r)
  <2> SUFFICES ASSUME NEW s \in rows \ {r} PROVE SortsBefore(s, r)
    OBVIOUS
  <2>1. ~ (s.period = r.period /\ s.publish = r.publish)
    BY DEF RowsKeyed
  <2> QED BY <1>5, <1>6, <2>1 DEF SortsBefore
<1>8. LastOf(rows) \in rows /\ \A s \in rows \ {LastOf(rows)} : SortsBefore(s, LastOf(rows))
  BY <1>7 DEF LastOf
<1>9. ASSUME NEW s \in rows PROVE s.publish <= LastOf(rows).publish
  <2>1. CASE s = LastOf(rows)
    BY <1>6, <1>8, <2>1
  <2>2. CASE s # LastOf(rows)
    BY <1>6, <1>8, <2>2 DEF SortsBefore
  <2> QED BY <2>1, <2>2
<1> QED BY <1>8, <1>9

-----------------------------------------------------------------------------
(* What lies before the bundle is older than all it holds.                 *)
LEMMA BundleIsNewest ==
  ASSUME RowsKeyed, NEW d \in SimStart..LastPitDay
  PROVE  /\ Masked(d) \subseteq PublishedBy(finRows, d)
         /\ \A r \in Masked(d), s \in PublishedBy(finRows, d) \ Masked(d) : s.publish < r.publish
         /\ Within(Bundle, d) = Within(finRows, d)
<1>1. \A r \in finRows : r.publish \in 1..LastPitDay
  BY DEF RowsKeyed, PitDays
<1>2. d \in Int /\ SimStart <= d /\ d <= LastPitDay /\ SimStart \in Int /\ PitLookback \in Int
      /\ LastPitDay \in Int
  BY PitAssumption
<1>3. Masked(d) \subseteq PublishedBy(finRows, d)
  BY DEF Masked, Bundle, PublishedBy
<1>4. ASSUME NEW r \in Masked(d), NEW s \in PublishedBy(finRows, d) \ Masked(d)
      PROVE  s.publish < r.publish
  BY <1>1, <1>2 DEF Masked, Bundle, PublishedBy
<1>5. Within(Bundle, d) = Within(finRows, d)
  BY <1>1, <1>2 DEF Within, Bundle
<1> QED BY <1>3, <1>4, <1>5

(* The daily row and the shared period of the frame are ones SQL may find. *)
LEMMA SnapshotsAgree ==
  ASSUME RowsKeyed, NEW d \in SimStart..LastPitDay, Masked(d) # {}, ~ RevenueAlone(d)
  PROVE  EngineSnapshot(d) \in RepoSnapshots(d)
<1> DEFINE last == LastOf(Masked(d))
           W == Within(finRows, d)
<1>1. last \in Masked(d) /\ \A s \in Masked(d) : s.publish <= last.publish
  <2>1. Masked(d) \subseteq finRows
    BY DEF Masked, Bundle
  <2> QED BY <2>1, LastRow
<1> HIDE DEF last
<1>2. last \in RepoDailyRows(d)
  <2>1. \A s \in PublishedBy(finRows, d) : s.publish <= last.publish
    <3> SUFFICES ASSUME NEW s \in PublishedBy(finRows, d), s \notin Masked(d)
                 PROVE  s.publish <= last.publish
      BY <1>1
    <3>1. s.publish < last.publish
      BY <1>1, BundleIsNewest
    <3>2. s.publish \in Int /\ last.publish \in Int
      BY <1>1, PitAssumption DEF RowsKeyed, PitDays, PublishedBy, Masked, Bundle
    <3> QED BY <3>1, <3>2
  <2> QED BY <1>1, <2>1, BundleIsNewest DEF RepoDailyRows
<1>3. NewestValued(W, {"yoy", "equity"}) = NewestValued(W, {"yoy", "revenue", "equity"})
  <2> DEFINE V(F) == {p \in PitPeriods : \E f \in F : ColumnMax(OfPeriod(W, p), f) # Blank}
  <2>1. V({"yoy", "equity"}) = V({"yoy", "revenue", "equity"})
    <3>1. \A p \in PitPeriods :
            ColumnMax(OfPeriod(W, p), "revenue") # Blank =>
               ColumnMax(OfPeriod(W, p), "yoy") # Blank \/ ColumnMax(OfPeriod(W, p), "equity") # Blank
      BY DEF RevenueAlone
    <3> QED BY <3>1
  <2>2. \A F : NewestValued(W, F) = Max(V(F) \cup {0})
    BY DEF NewestValued
  <2> HIDE DEF V, W
  <2> QED BY <2>1, <2>2
<1>4. EngineSnapshot(d) = Snapshot(last, W, {"yoy", "equity"})
  BY BundleIsNewest DEF EngineSnapshot, last
<1>5. Snapshot(last, W, {"yoy", "equity"}) = Snapshot(last, W, {"yoy", "revenue", "equity"})
  <2> HIDE DEF W
  <2> QED BY <1>3 DEF Snapshot
<1> QED BY <1>2, <1>4, <1>5 DEF RepoSnapshots

(* The latest row of a period is the same in the frame and in the table.   *)
LEMMA LatestAgree ==
  ASSUME RowsKeyed, NEW d \in SimStart..LastPitDay, NEW p, OfPeriod(Masked(d), p) # {}
  PROVE  LastOf(OfPeriod(Masked(d), p)) = LatestOfPeriod(PublishedBy(finRows, d), p)
<1> DEFINE In == OfPeriod(Masked(d), p)
           All == OfPeriod(PublishedBy(finRows, d), p)
           x == LastOf(In)
           y == LatestOfPeriod(PublishedBy(finRows, d), p)
<1>1. x \in In /\ \A s \in In : s.publish <= x.publish
  <2>1. In \subseteq finRows
    BY DEF OfPeriod, Masked, Bundle
  <2> HIDE DEF In
  <2> QED BY <2>1, LastRow DEF In
<1> HIDE DEF x
<1>2. In \subseteq All /\ \A s \in All \ In : s.publish < x.publish
  BY <1>1, BundleIsNewest DEF OfPeriod
<1>3. \A s \in All : s \in finRows /\ s.period = p /\ s.publish \in Int
  BY PitAssumption DEF RowsKeyed, PitDays, OfPeriod, PublishedBy
<1>4. y = CHOOSE r \in All : \A s \in All : s.publish <= r.publish
  BY DEF LatestOfPeriod
<1> HIDE DEF y, In, All
<1>5. x \in All /\ \A s \in All : s.publish <= x.publish
  BY <1>1, <1>2, <1>3
<1>6. y \in All /\ \A s \in All : s.publish <= y.publish
  BY <1>4, <1>5
<1>7. x.publish = y.publish /\ x.period = y.period /\ x \in finRows /\ y \in finRows
  BY <1>3, <1>5, <1>6
<1>8. x = y
  BY <1>7 DEF RowsKeyed
<1> QED BY <1>8 DEF x, y, In

(* Without a period that is older than the bundle the histories are one.   *)
LEMMA HistoriesAgree ==
  ASSUME RowsKeyed, NEW d \in SimStart..LastPitDay, ~ OlderThanBundle(d)
  PROVE  EngineHistory(d) = RepoHistory(d)
<1> DEFINE inFrame == {r.period : r \in Masked(d)}
           inTable == {r.period : r \in PublishedBy(finRows, d)}
<1>1. inFrame = inTable
  <2>1. inFrame \subseteq inTable
    BY BundleIsNewest
  <2>2. ASSUME NEW r \in PublishedBy(finRows, d) PROVE r.period \in inFrame
    <3>1. r.period \in PitPeriods /\ r \in OfPeriod(PublishedBy(finRows, d), r.period)
      BY DEF RowsKeyed, PublishedBy, OfPeriod
    <3>2. PICK s \in OfPeriod(PublishedBy(finRows, d), r.period) : s \in Bundle
      BY <3>1 DEF OlderThanBundle
    <3>3. s \in Masked(d) /\ s.period = r.period
      BY <3>2 DEF OfPeriod, PublishedBy, Masked
    <3> QED BY <3>3
  <2> QED BY <2>1, <2>2
<1> DEFINE ps == NewestPeriods(inTable, HistoryPeriods)
<1>2. ps \subseteq inFrame
  BY <1>1 DEF NewestPeriods
<1>3. \A p \in ps : LastOf(OfPeriod(Masked(d), p)) = LatestOfPeriod(PublishedBy(finRows, d), p)
  <2> SUFFICES ASSUME NEW p \in ps
               PROVE  LastOf(OfPeriod(Masked(d), p)) = LatestOfPeriod(PublishedBy(finRows, d), p)
    OBVIOUS
  <2>1. OfPeriod(Masked(d), p) # {}
    BY <1>2 DEF OfPeriod
  <2> QED BY <2>1, LatestAgree
<1>4. /\ EngineHistory(d) = {LastOf(OfPeriod(Masked(d), p)) : p \in NewestPeriods(inFrame, HistoryPeriods)}
      /\ RepoHistory(d) = {LatestOfPeriod(PublishedBy(finRows, d), p) : p \in ps}
  BY DEF EngineHistory, RepoHistory
<1> HIDE DEF inFrame, inTable
<1>5. EngineHistory(d) = {LastOf(OfPeriod(Masked(d), p)) : p \in ps}
  BY <1>1, <1>4
<1> HIDE DEF ps
<1> QED BY <1>3, <1>4, <1>5

(* The two readings of the financials agree while each key is there once.  *)
LEMMA KeyedRowsAgree == RowsKeyed => FinancialsAgree
<1> SUFFICES ASSUME RowsKeyed, NEW d \in SimStart..LastPitDay
             PROVE  /\ Masked(d) # {} /\ ~RevenueAlone(d) => EngineSnapshot(d) \in RepoSnapshots(d)
                    /\ ~OlderThanBundle(d) => (Losing(EngineHistory(d)) <=> Losing(RepoHistory(d)))
  BY DEF FinancialsAgree
<1>1. ASSUME Masked(d) # {}, ~ RevenueAlone(d) PROVE EngineSnapshot(d) \in RepoSnapshots(d)
  BY <1>1, SnapshotsAgree
<1>2. ASSUME ~ OlderThanBundle(d) PROVE Losing(EngineHistory(d)) <=> Losing(RepoHistory(d))
  <2>1. EngineHistory(d) = RepoHistory(d)
    BY <1>2, HistoriesAgree
  <2> QED BY <2>1, Zenon
<1> QED BY <1>1, <1>2
-----------------------------------------------------------------------------
(* The order of the announced estimates, from which both sides take the    *)
(* last: where the table's is in the bundle, the bundle's is the same.     *)
LEMMA EstimatesAgree ==
  ASSUME ForecastKeyed, NEW d \in SimStart..LastPitDay, ForecastInBundle(d)
  PROVE  EngineForecast(d) = RepoForecast(d)
<1> DEFINE A == EstimatesIn(1, d)
           B == {k \in ForecastBundle : forecastOf[k].day <= d}
<1>1. IsFiniteSet(A) /\ A \subseteq Int \X Int
  <2>1. IsFiniteSet(PitPeriods \X Sources)
    <3>1. \A m \in Int : IsFiniteSet(1..m)
      BY FS_Interval
    <3>2. 2 \in Int
      OBVIOUS
    <3>3. Sources = 1..2
      BY DEF Sources
    <3>4. IsFiniteSet(Sources)
      BY <3>1, <3>2, <3>3, Zenon
    <3>5. IsFiniteSet(PitPeriods)
      BY PitAssumption
    <3> QED BY <3>4, <3>5, FS_Product
  <2>2. A \subseteq PitPeriods \X Sources
    BY DEF EstimatesIn, ForecastKeyed
  <2>3. PitPeriods \X Sources \subseteq Int \X Int
    <3>1. PitPeriods \subseteq Int /\ Sources \subseteq Int
      BY PitAssumption DEF Sources
    <3> QED BY <3>1
  <2> HIDE DEF A
  <2> QED BY <2>1, <2>2, <2>3, FS_Subset
<1>2. B \subseteq A /\ A \cap ForecastBundle \subseteq B
  BY PitAssumption DEF EstimatesIn, ForecastBundle, PitDays
<1>3. EngineForecast(d) = NewestEstimate(B) /\ RepoForecast(d) = NewestEstimate(A)
  BY DEF EngineForecast, RepoForecast
<1>4. NewestEstimate(A) \subseteq ForecastBundle
  BY <1>3 DEF ForecastInBundle
<1> HIDE DEF A, B
<1>5. NewestEstimate(A) \subseteq NewestEstimate(B)
  BY <1>2, <1>4 DEF NewestEstimate
<1>6. NewestEstimate(B) \subseteq NewestEstimate(A)
  <2> SUFFICES ASSUME NEW k \in NewestEstimate(B), NEW l \in A, Ahead(k, l) PROVE FALSE
    BY <1>2 DEF NewestEstimate
  <2>1. A # {}
    OBVIOUS
  <2>2. PICK m \in A : \A x \in A : x[1] < m[1] \/ (x[1] = m[1] /\ x[2] <= m[2])
    BY <1>1, <2>1, LastInDictionary
  <2>3. \A x \in A : x[1] \in Int /\ x[2] \in Int
    BY <1>1
  <2>4. m \in NewestEstimate(A)
    BY <2>2, <2>3 DEF NewestEstimate, Ahead
  <2>5. m \in B
    BY <1>2, <1>4, <2>4
  <2>6. k \in A /\ (l[1] < m[1] \/ (l[1] = m[1] /\ l[2] <= m[2]))
    BY <1>2, <2>2 DEF NewestEstimate
  <2>7. Ahead(k, m)
    BY <2>3, <2>6 DEF Ahead
  <2> QED BY <2>5, <2>7 DEF NewestEstimate
<1>7. NewestEstimate(A) = NewestEstimate(B)
  BY <1>5, <1>6, Zenon
<1> QED BY <1>3, <1>7, Zenon

(* The return on equity after the estimate is one the live scoring may see.*)
LEMMA RoesAgree ==
  ASSUME RowsKeyed, ForecastKeyed, NEW d \in SimStart..LastPitDay,
         Masked(d) # {}, ~ RevenueAlone(d), ForecastInBundle(d)
  PROVE  \E s \in RepoSnapshots(d) :
            RoeOf(EngineSnapshot(d), EngineForecast(d)) = RoeOf(s, RepoForecast(d))
<1>1. EngineSnapshot(d) \in RepoSnapshots(d)
  BY SnapshotsAgree
<1>2. EngineForecast(d) = RepoForecast(d)
  BY EstimatesAgree
<1> QED BY <1>1, <1>2, Zenon

(* An interval cut at a day holds as many days as its bounds are apart.    *)
LEMMA DaysBetween ==
  ASSUME NEW a \in Int, NEW b \in Int
  PROVE  IsFiniteSet(a..b) /\ Cardinality(a..b) = IF a > b THEN 0 ELSE (b - a) + 1
BY FS_Interval

(* Where the stock traded on each day of the window, its newest rows are   *)
(* those of the newest days of the market.                                 *)
LEMMA AveragesAgree ==
  ASSUME NEW d \in SimStart..LastPitDay, TradedThroughout(d)
  PROVE  EngineAverage(d) = RepoAverage(d)
<1> DEFINE W == AmountWindow
           rows == Traded(1..(d - 1))
           days == {q \in QuoteBundle : q < d}
           win == {q \in PitDays : d - W <= q /\ q <= d - 1}
<1>1. /\ d \in Int /\ W \in Nat /\ SimStart <= d /\ d <= LastPitDay /\ W <= QuoteLookback
      /\ SimStart \in Int /\ QuoteLookback \in Int /\ LastPitDay \in Int
  BY PitAssumption, PitMarketAssumption
<1> HIDE DEF W
<1>2. win \subseteq rows
  BY <1>1 DEF TradedThroughout, Traded, PitDays, W
<1>3. NewestDays(days, W) = win
  <2>1. ASSUME NEW q \in days PROVE {p \in days : p > q} = (q + 1)..(d - 1)
    BY <1>1, <2>1 DEF QuoteBundle, PitDays
  <2>2. ASSUME NEW q \in days PROVE Cardinality({p \in days : p > q}) < W <=> d - W <= q
    <3>1. q \in Int /\ q < d
      BY <1>1 DEF QuoteBundle, PitDays
    <3>2. Cardinality((q + 1)..(d - 1)) = IF q + 1 > d - 1 THEN 0 ELSE (d - 1 - (q + 1)) + 1
      BY <1>1, <3>1, DaysBetween
    <3>3. Cardinality((q + 1)..(d - 1)) = d - 1 - q
      BY <1>1, <3>1, <3>2
    <3>4. Cardinality({p \in days : p > q}) = d - 1 - q
      BY <2>1, <3>3
    <3> HIDE DEF days
    <3> QED BY <1>1, <3>1, <3>4
  <2>3. win = {q \in days : d - W <= q}
    BY <1>1 DEF QuoteBundle, PitDays
  <2> HIDE DEF days, win
  <2>4. NewestDays(days, W) = {q \in days : Cardinality({p \in days : p > q}) < W}
    BY DEF NewestDays
  <2> QED BY <2>2, <2>3, <2>4
<1>4. NewestDays(rows, W) = win
  <2>1. rows \subseteq PitDays /\ rows \subseteq 1..(d - 1)
    BY <1>1 DEF Traded, PitDays
  <2>2. ASSUME NEW q \in rows PROVE Cardinality({p \in rows : p > q}) < W <=> d - W <= q
    <3> DEFINE S == {p \in rows : p > q}
    <3>1. q \in Int /\ 1 <= q /\ q < d
      BY <1>1, <2>1
    <3>2. S \subseteq (q + 1)..(d - 1)
      BY <1>1, <2>1, <3>1
    <3>3. IsFiniteSet((q + 1)..(d - 1)) /\ Cardinality((q + 1)..(d - 1)) = d - 1 - q
      <4>1. /\ IsFiniteSet((q + 1)..(d - 1))
            /\ Cardinality((q + 1)..(d - 1)) = IF q + 1 > d - 1 THEN 0 ELSE (d - 1 - (q + 1)) + 1
        BY <1>1, <3>1, DaysBetween
      <4> QED BY <1>1, <3>1, <4>1
    <3> HIDE DEF S
    <3>4. IsFiniteSet(S) /\ Cardinality(S) <= Cardinality((q + 1)..(d - 1)) /\ Cardinality(S) \in Nat
      BY <3>2, <3>3, FS_Subset, FS_CardinalityType
    <3>5. CASE d - W <= q
      BY <1>1, <3>1, <3>3, <3>4, <3>5 DEF S
    <3>6. CASE ~ (d - W <= q)
      <4>1. (d - W)..(d - 1) \subseteq S
        BY <1>1, <1>2, <3>1, <3>6 DEF S, PitDays
      <4>2. Cardinality((d - W)..(d - 1)) = W
        <5> DEFINE a == d - W
                   b == d - 1
        <5>1. a \in Int /\ b \in Int
          BY <1>1
        <5> HIDE DEF a, b
        <5>2. Cardinality(a..b) = IF a > b THEN 0 ELSE (b - a) + 1
          BY <5>1, DaysBetween
        <5> QED BY <1>1, <5>2 DEF a, b
      <4>3. Cardinality((d - W)..(d - 1)) <= Cardinality(S)
        BY <3>4, <4>1, FS_Subset
      <4> QED BY <1>1, <3>4, <3>6, <4>2, <4>3 DEF S
    <3> QED BY <3>5, <3>6
  <2>3. win = {q \in rows : d - W <= q}
    <3>1. \A q \in win : q \in rows /\ d - W <= q
      BY <1>2
    <3>2. \A q \in rows : q \in PitDays /\ q <= d - 1
      BY <1>1, <2>1
    <3> HIDE DEF rows
    <3> QED BY <3>1, <3>2
  <2> HIDE DEF rows, win
  <2>4. NewestDays(rows, W) = {q \in rows : Cardinality({p \in rows : p > q}) < W}
    BY DEF NewestDays
  <2> QED BY <2>2, <2>3, <2>4
<1>5. Traded(win) = win
  BY <1>2 DEF Traded
<1>6. EngineAverage(d) = SumAndCount(Traded(NewestDays(days, W)), quoteOf)
  BY DEF EngineAverage, W
<1>7. RepoAverage(d) = SumAndCount(NewestDays(rows, W), quoteOf)
  BY DEF RepoAverage, W
<1> HIDE DEF days, rows, win
<1> QED BY <1>3, <1>4, <1>5, <1>6, <1>7

(* The window of money flows lies in what was loaded.                      *)
LEMMA FlowsAgree ==
  ASSUME NEW d \in SimStart..LastPitDay
  PROVE  EngineFlow(d) = RepoFlow(d)
BY PitAssumption, PitMarketAssumption DEF EngineFlow, RepoFlow, FlowBundle, FlowRows, Traded, PitDays

(* The newest valuation is the same row on both sides, and so its rank.    *)
LEMMA RanksAgree ==
  ASSUME NEW d \in SimStart..LastPitDay, RowInBundle(d)
  PROVE  EngineRank(d) = RepoRank(d)
<1> DEFINE first == SimStart - PitLookback
           A == {q \in PitDays : q \in 1..d /\ valueOf[q] # NoValuation} \cup {0}
           B == {q \in PitDays : q \in first..d /\ valueOf[q] # NoValuation} \cup {0}
           r == NewestRow(1, d)
<1>1. /\ d \in Int /\ SimStart <= d /\ d <= LastPitDay /\ SimStart \in Int /\ first \in Int
      /\ RankLookback \in Int /\ LastPitDay \in Nat
  BY PitAssumption, PitMarketAssumption
<1>2. r = Max(A) /\ NewestRow(first, d) = Max(B) /\ (r # 0 => r >= first)
  BY DEF NewestRow, RowInBundle
<1> HIDE DEF first, r
<1>3. /\ A \subseteq 0..LastPitDay /\ B \subseteq A /\ 0 \in B
      /\ \A q \in A : q >= first => q \in B
  BY <1>1 DEF PitDays
<1>4. IsFiniteSet(A) /\ IsFiniteSet(B) /\ A \subseteq Int /\ B \subseteq Int /\ A # {} /\ B # {}
  <2> HIDE DEF A, B
  <2>1. IsFiniteSet(0..LastPitDay)
    BY <1>1, FS_Interval
  <2>2. IsFiniteSet(A)
    BY <1>3, <2>1, FS_Subset
  <2>3. IsFiniteSet(B)
    BY <1>3, <2>2, FS_Subset
  <2> QED BY <1>3, <2>2, <2>3
<1> HIDE DEF A, B
<1>5. Max(A) \in A /\ \A y \in A : y <= Max(A)
  BY <1>4, MaxOfFinite
<1>6. Max(B) \in B /\ \A y \in B : y <= Max(B)
  BY <1>4, MaxOfFinite
<1>7. r \in B
  BY <1>2, <1>3, <1>5
<1>8. NewestRow(first, d) = r
  <2> DEFINE m == Max(B)
  <2>1. r \in Int /\ m \in Int
    BY <1>4, <1>6, <1>7
  <2>2. r <= m
    BY <1>6, <1>7
  <2>3. m <= r
    <3>1. m \in A
      BY <1>3, <1>6
    <3> QED BY <1>2, <1>5, <3>1
  <2> HIDE DEF m
  <2>4. m = r
    BY <2>1, <2>2, <2>3
  <2> QED BY <1>2, <2>4 DEF m
<1>9. {p \in HistoryArrays : p >= d - RankLookback /\ p <= d} = Valued(d - RankLookback, d)
  BY <1>1 DEF HistoryArrays, Valued, PitDays
<1> DEFINE H == Valued(d - RankLookback, d)
<1>10. EngineRank(d) = IF r = 0 \/ valueOf[r] = Blank \/ H = {} THEN NoRank
                      ELSE <<Cardinality({p \in H : valueOf[p] < valueOf[r]}), Cardinality(H)>>
  <2> HIDE DEF H
  <2>1. {p \in HistoryArrays : p >= d - RankLookback /\ p <= d} = H
    BY <1>9 DEF H
  <2> QED BY <1>8, <2>1 DEF EngineRank, first
<1>11. RepoRank(d) = IF r = 0 \/ valueOf[r] = Blank \/ H = {} THEN NoRank
                    ELSE <<Cardinality({p \in H : valueOf[p] < valueOf[r]}), Cardinality(H)>>
  BY DEF RepoRank, SqlRank, r
<1> QED BY <1>10, <1>11

-----------------------------------------------------------------------------
(* The upserts keep each key once.                                         *)
LEMMA UpsertKeepsKeys ==
  ASSUME RowsKeyed, NEW key \in PitKeys, NEW data, UpsertFinancial(key, data)
  PROVE  RowsKeyed'
<1> DEFINE old == {r \in finRows : KeyOfRow(r) = key}
<1>1. PICK kept : finRows' = (finRows \ old) \cup
                     {[period |-> key.period, publish |-> key.publish, data |-> kept]}
  BY DEF UpsertFinancial
<1> DEFINE new == [period |-> key.period, publish |-> key.publish, data |-> kept]
<1>2. IsFiniteSet(finRows')
  <2>1. IsFiniteSet(finRows \ old)
    <3>1. finRows \ old \subseteq finRows
      OBVIOUS
    <3> QED BY <3>1, FS_Subset, Zenon DEF RowsKeyed
  <2> HIDE DEF new, old
  <2>2. IsFiniteSet((finRows \ old) \cup {new})
    BY <2>1, FS_AddElement
  <2> QED BY <1>1, <2>2 DEF new
<1>3. key.period \in PitPeriods /\ key.publish \in PitDays
  BY DEF PitKeys
<1>4. \A r \in finRows \ old : ~ (r.period = key.period /\ r.publish = key.publish)
  <2>1. key = [period |-> key.period, publish |-> key.publish]
    BY DEF PitKeys
  <2> QED BY <2>1 DEF KeyOfRow
<1>5. \A r \in finRows' : r \in finRows \ old \/ (r = new /\ r.period = key.period /\ r.publish = key.publish)
  BY <1>1
<1>6. \A r \in finRows' : r.period \in PitPeriods /\ r.publish \in PitDays
  BY <1>3, <1>5 DEF RowsKeyed
<1>7. \A r, s \in finRows' : r.period = s.period /\ r.publish = s.publish => r = s
  <2> HIDE DEF new, old
  <2> QED BY <1>4, <1>5 DEF RowsKeyed
<1> QED BY <1>2, <1>6, <1>7 DEF RowsKeyed

(* The engine's in-memory reading of every table is, on every day of a     *)
(* back-test, one the live SQL could return on that day.                   *)
THEOREM BacktestsSeeLiveData == PitMarketSpec => []BacktestSeesLiveData
<1>1. PitMarketInit => RowsKeyed /\ ForecastKeyed
  BY FS_EmptySet DEF PitMarketInit, PitInit, RowsKeyed, ForecastKeyed
<1>2. RowsKeyed /\ ForecastKeyed /\ [PitMarketNext]_pmVars => (RowsKeyed /\ ForecastKeyed)'
  <2> SUFFICES ASSUME RowsKeyed, ForecastKeyed, [PitMarketNext]_pmVars
               PROVE  RowsKeyed' /\ ForecastKeyed'
    OBVIOUS
  <2>1. CASE PitNext /\ UNCHANGED marketTables
    <3>1. RowsKeyed'
      BY <2>1, UpsertKeepsKeys DEF PitNext
    <3> QED BY <2>1, <3>1 DEF marketTables, ForecastKeyed
  <2>2. ASSUME NEW q \in PitDays, NEW amount \in Amounts, UpsertQuote(q, amount)
        PROVE  RowsKeyed' /\ ForecastKeyed'
    BY <2>2 DEF UpsertQuote, Write, pitVars, RowsKeyed, ForecastKeyed
  <2>3. ASSUME NEW q \in PitDays, UpsertMoneyFlow(q) PROVE RowsKeyed' /\ ForecastKeyed'
    BY <2>3 DEF UpsertMoneyFlow, Write, pitVars, RowsKeyed, ForecastKeyed
  <2>4. ASSUME NEW q \in PitDays, NEW k \in DOMAIN forecastOf, NEW profit \in Estimates \cup {Blank},
               UpsertForecast(k, q, profit)
        PROVE  RowsKeyed' /\ ForecastKeyed'
    BY <2>4 DEF UpsertForecast, Write, pitVars, RowsKeyed, ForecastKeyed
  <2>5. ASSUME NEW q \in PitDays, NEW v \in Valuations \cup {Blank}, UpsertValuation(q, v)
        PROVE  RowsKeyed' /\ ForecastKeyed'
    BY <2>5 DEF UpsertValuation, Write, pitVars, RowsKeyed, ForecastKeyed
  <2>6. CASE UNCHANGED pmVars
    BY <2>6 DEF pmVars, marketTables, RowsKeyed, ForecastKeyed
  <2> QED BY <2>1, <2>2, <2>3, <2>4, <2>5, <2>6 DEF PitMarketNext
<1>3. RowsKeyed /\ ForecastKeyed => BacktestSeesLiveData
  BY KeyedRowsAgree, RoesAgree, AveragesAgree, FlowsAgree, RanksAgree DEF BacktestSeesLiveData
<1> QED BY <1>1, <1>2, <1>3, PTL DEF PitMarketSpec
=============================================================================
