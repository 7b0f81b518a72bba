---------------------------- MODULE BacktestDays ----------------------------
(* The simulation of a back-test: day by day the signals of the day before     *)
(* are executed at the open, the stocks are scored, signals are derived from   *)
(* the ranking and the virtual holdings, sized, checked for concentration, and *)
(* left for the next day; or, in the older mode, executed at once at the       *)
(* close.  Money is counted in 1/FeeScale of the price unit.  The engine never *)
(* updates market_value and pnl_pct of a virtual position: the sizer always    *)
(* sees an empty account, and the stop-loss never fires.                       *)
EXTENDS Integers, Sequences, FiniteSets, FiniteSetsExt

CONSTANTS SimStocks,
          LastSimDay,                \* bound on the trading days
          SimMarkets,                \* what a day's quotes may be
          SimRankings,               \* what a day's scores may be
          FeeScale, BuyFee, SellFee, \* commission, stamp tax and slippage
          Capital, Lot,
          SinglePct, SizerStockPct, AvailablePct, \* of the sizer; the last per market state
          DefaultPct,                \* bought of a signal without a size
          RiskStockPct,
          AddDeviationPct

NoQuote == [kind |-> "none"]
NoOpen == 0
QuoteKinds == {"normal", "limit_up", "sealed", "suspended"}

ASSUME BacktestDaysAssumption ==
  /\ LastSimDay \in Nat /\ Capital \in Nat \ {0} /\ Lot \in Nat \ {0}
  /\ FeeScale \in Nat /\ BuyFee \in Nat /\ SellFee \in Nat /\ SellFee < FeeScale
  /\ \A m \in SimMarkets, s \in SimStocks :
       m[s] = NoQuote \/ /\ m[s].kind \in QuoteKinds
                         /\ m[s].open \in Nat /\ m[s].close \in Nat \ {0}
  /\ {SinglePct, SizerStockPct, DefaultPct} \subseteq Nat
  /\ \A state \in DOMAIN AvailablePct : AvailablePct[state] \in Nat
  /\ SimRankings \subseteq Seq([stock : SimStocks, class : {"top", "middle", "bottom"}])
  /\ \A ranking \in SimRankings : \A i, j \in DOMAIN ranking :   \* a stock ranks once
       ranking[i].stock = ranking[j].stock => i = j

VARIABLES simDay, simMode,
          simQuotes,  \* the quotes of the day, once it is open
          simOpen,    \* the day's open has been dealt with
          simPending, \* signals of the day before
          simBook,    \* cash, holdings and the records of the trades
          simNav      \* net asset value per day, in money

simVars == <<simDay, simMode, simQuotes, simOpen, simPending, simBook, simNav>>

Flat0 == [shares |-> 0, basis |-> 0]   \* basis is shares times WAC price
Holding(book, s) == book.held[s].shares > 0
Less(a, b) == IF a < b THEN a ELSE b

SimInit == /\ simDay = 1 /\ simMode \in {"OPEN_T1", "CLOSE_T"}
           /\ simQuotes = [s \in SimStocks |-> NoQuote] /\ simOpen = FALSE
           /\ simPending = <<>> /\ simNav = <<>>
           /\ simBook = [cash |-> Capital, held |-> [s \in SimStocks |-> Flat0], trades |-> <<>>]

-----------------------------------------------------------------------------
(* _execute_signals *)

(* The open, or the close where it is missing; the close in the older mode.    *)
ExecutionPrice(q) == IF simMode = "OPEN_T1" /\ q.open # NoOpen THEN q.open ELSE q.close
Record(sig, price, shares, amount) ==
  [day |-> simDay, made |-> sig.made, stock |-> sig.stock, type |-> sig.type,
   price |-> price, shares |-> shares, amount |-> amount]

Bought(book, sig, price) ==
  LET pct == IF sig.pct = 0 THEN DefaultPct ELSE sig.pct
      unit == price * (FeeScale + BuyFee)
      shares == Lot * (Less(Capital * pct, book.cash * 95) \div (100 * unit * Lot))
      cost == shares * unit
  IN IF book.cash * 200 < Capital * pct \/ shares = 0 \/ cost > book.cash THEN book
     ELSE [cash |-> book.cash - cost,
           held |-> [book.held EXCEPT ![sig.stock].shares = @ + shares,
                                      ![sig.stock].basis = @ + shares * price],
           trades |-> Append(book.trades, Record(sig, price, shares, cost))]

Sold(book, sig, price) ==
  LET shares == book.held[sig.stock].shares
      proceeds == shares * price * (FeeScale - SellFee)
  IN IF ~Holding(book, sig.stock) THEN book
     ELSE [cash |-> book.cash + proceeds,
           held |-> [book.held EXCEPT ![sig.stock] = Flat0],
           trades |-> Append(book.trades, Record(sig, price, shares, proceeds))]

(* Without a quote, suspended, or bought at a sealed limit: the signal is lost. *)
Executed(book, sig, quotes) ==
  LET q == quotes[sig.stock]
  IN CASE sig.type = "NONE" \/ q.kind \in {"none", "suspended"}
          \/ (sig.type = "BUY" /\ q.kind = "sealed") -> book
       [] OTHER -> IF sig.type = "BUY" THEN Bought(book, sig, ExecutionPrice(q))
                   ELSE Sold(book, sig, ExecutionPrice(q))

ExecuteSignals(signals, book, quotes) ==
  LET after[i \in 0..Len(signals)] ==
        IF i = 0 THEN book ELSE Executed(after[i - 1], signals[i], quotes)
  IN after[Len(signals)]

-----------------------------------------------------------------------------
(* From the ranking to signals.  What is no signal, or no longer one, keeps its *)
(* place with the type NONE.                                                   *)

(* A holding in the top is added to near its cost, and not in a downtrend.     *)
CanAdd(s, quotes, state) ==
  LET h == simBook.held[s]
      off == quotes[s].close * h.shares - h.basis
  IN /\ state # "DOWNTREND"
     /\ (IF off < 0 THEN -off ELSE off) * 100 <= AddDeviationPct * h.basis

(* Only the universe is scored: the stocks with a quote that are not suspended. *)
CallOf(x, quotes, state) ==
  CASE quotes[x.stock].kind \in {"none", "suspended"} -> "NONE"
    [] x.class = "bottom" -> "SELL"
    [] x.class = "top" /\ quotes[x.stock].kind = "normal"
       /\ (Holding(simBook, x.stock) => CanAdd(x.stock, quotes, state)) -> "BUY"
    [] OTHER -> "NONE"

Generate(ranking, quotes, state) ==
  [i \in DOMAIN ranking |->
     [stock |-> ranking[i].stock, made |-> simDay, pct |-> 0,
      type |-> CallOf(ranking[i], quotes, state)]]

(* PositionSizer.suggest: what is left of the day's allowance, one signal      *)
(* after the other; too little left, and the signal goes without a size (0).   *)
SizeOf(left) == IF left * 2 < SinglePct THEN 0 ELSE Less(SinglePct, Less(SizerStockPct, left))
Suggest(signals, state) ==
  LET left[i \in 0..Len(signals)] ==
        IF i = 0 THEN AvailablePct[state]
        ELSE left[i - 1] - (IF signals[i].type = "BUY" THEN SizeOf(left[i - 1]) ELSE 0)
  IN [i \in DOMAIN signals |-> [signals[i] EXCEPT !.pct = left[i - 1] - left[i]]]

(* The close of the day, or the cost where a holding has no quote.             *)
ValueOf(book, s, quotes) ==
  FeeScale * (IF quotes[s].kind = "none" THEN book.held[s].basis
              ELSE book.held[s].shares * quotes[s].close)
NavOf(book, quotes) == book.cash + MapThenSumSet(LAMBDA s : ValueOf(book, s, quotes), SimStocks)

(* RiskChecker: a sized purchase that would put too much into one stock is     *)
(* dropped.  The quotes of a back-test have no industries, so that the limit   *)
(* per industry is never looked at.                                            *)
Blocked(sig, quotes) ==
  LET total == NavOf(simBook, quotes)
  IN /\ sig.type = "BUY" /\ sig.pct > 0
     /\ ValueOf(simBook, sig.stock, quotes) * 100 + sig.pct * total > RiskStockPct * total
RiskChecked(signals, quotes) ==
  [i \in DOMAIN signals |-> IF Blocked(signals[i], quotes) THEN [signals[i] EXCEPT !.type = "NONE"]
                            ELSE signals[i]]

(* When the generator raises there are no signals, when the sizer raises they  *)
(* go on without a size, when the check raises they go on unchecked.           *)
SignalsOf(ranking, quotes, state) ==
  LET made == Generate(ranking, quotes, state)
  IN {<<>>, RiskChecked(Suggest(made, state), quotes), RiskChecked(made, quotes),
      Suggest(made, state)}

-----------------------------------------------------------------------------
Quoted(quotes) == \E s \in SimStocks : quotes[s].kind # "none"

(* Faulty variant of OpenDay: without quotes the signals wait another day.     *)
OpenDayKeepsSignals(m) ==
  /\ simDay <= LastSimDay /\ ~simOpen
  /\ simOpen' = TRUE /\ simQuotes' = m
  /\ simBook' = IF Quoted(m) THEN ExecuteSignals(simPending, simBook, m) ELSE simBook
  /\ simPending' = IF Quoted(m) THEN <<>> ELSE simPending
  /\ UNCHANGED <<simDay, simMode, simNav>>

(* The signals of the day before meet the quotes of this day; what cannot be   *)
(* executed now never is.                                                      *)
OpenDay(m) ==
  /\ simDay <= LastSimDay /\ ~simOpen
  /\ simOpen' = TRUE /\ simQuotes' = m
  /\ simBook' = ExecuteSignals(simPending, simBook, m)
  /\ simPending' = <<>>
  /\ UNCHANGED <<simDay, simMode, simNav>>

CloseDay(signals) ==
  /\ simPending' = IF simMode = "OPEN_T1" THEN signals ELSE simPending
  /\ simBook' = IF simMode = "OPEN_T1" THEN simBook
                ELSE ExecuteSignals(signals, simBook, simQuotes)
  /\ simNav' = Append(simNav, NavOf(simBook', simQuotes))
  /\ simDay' = simDay + 1 /\ simOpen' = FALSE
  /\ simQuotes' = [s \in SimStocks |-> NoQuote]
  /\ UNCHANGED simMode

(* Nobody is listed yet or nothing is quoted: the holdings count at cost.      *)
SkipSimDay ==
  /\ simOpen /\ ~Quoted(simQuotes)
  /\ simNav' = Append(simNav, NavOf(simBook, simQuotes))
  /\ simDay' = simDay + 1 /\ simOpen' = FALSE
  /\ UNCHANGED <<simMode, simQuotes, simPending, simBook>>

TradeSimDay(ranking, state) ==
  /\ simOpen /\ Quoted(simQuotes)
  /\ \E signals \in SignalsOf(ranking, simQuotes, state) : CloseDay(signals)

SimNext ==
  \/ \E m \in SimMarkets : OpenDay(m)
  \/ SkipSimDay
  \/ \E ranking \in SimRankings, state \in DOMAIN AvailablePct : TradeSimDay(ranking, state)

SimSpec == SimInit /\ [][SimNext]_simVars

SimTypeOK ==
  /\ simDay \in 1..(LastSimDay + 1) /\ simMode \in {"OPEN_T1", "CLOSE_T"}
  /\ simQuotes \in SimMarkets \cup {[s \in SimStocks |-> NoQuote]} /\ simOpen \in BOOLEAN
  /\ simBook.cash \in Int /\ Len(simNav) = simDay - 1
  /\ \A s \in SimStocks : simBook.held[s].shares \in Nat /\ simBook.held[s].basis \in Nat

-----------------------------------------------------------------------------
Matching(book, type) == {i \in DOMAIN book.trades : book.trades[i].type = type}
Moved(book, type) ==
  SumFunctionOnSet([i \in DOMAIN book.trades |-> book.trades[i].amount], Matching(book, type))

(* Cash is never overdrawn, and is the capital less the purchases plus the     *)
(* sales that signal_history reports: the performance report, which is         *)
(* computed from those records, and the NAV speak of the same account.         *)
RecordsExplainCash ==
  /\ simBook.cash >= 0
  /\ simBook.cash = Capital - Moved(simBook, "BUY") + Moved(simBook, "SELL")

(* No trade knows the future or is late: it carries out a signal of the        *)
(* trading day just before (of the same day in the older mode).                *)
NothingFromLater ==
  \A i \in DOMAIN simBook.trades :
    simBook.trades[i].made = simBook.trades[i].day - (IF simMode = "OPEN_T1" THEN 1 ELSE 0)

(* T+1: what was bought on a day is not sold on that day.                      *)
NoSameDayRoundTrip ==
  \A i \in Matching(simBook, "BUY"), j \in Matching(simBook, "SELL") :
    ~ /\ simBook.trades[i].day = simBook.trades[j].day
      /\ simBook.trades[i].stock = simBook.trades[j].stock

(* The simulated account could have been a real one: its records explain its   *)
(* cash, which is never overdrawn, no trade knows the future, and nothing is   *)
(* sold on the day it was bought (engine.py:445 and the two modes of run).     *)
SimulationIsHonest == RecordsExplainCash /\ NothingFromLater /\ NoSameDayRoundTrip
=============================================================================
