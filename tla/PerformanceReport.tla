-------------------------- MODULE PerformanceReport --------------------------
(***************************************************************************)
(* PerformanceService: what the reports make of the rows of an account.    *)
(* The service reads trade_record and fund_flow, without is_voided, and    *)
(* pairs purchases and sales of a stock by itself; nothing of it comes     *)
(* from the positions that AccountLedger keeps.                            *)
(***************************************************************************)
EXTENDS AccountLedger

TradesOf(s, type) == {t \in DOMAIN trades : trades[t].stock = s /\ trades[t].type = type}
AmountOf(s, type) ==
    SumFunctionOnSet([t \in DOMAIN trades |-> trades[t].price * trades[t].shares], TradesOf(s, type))

\* get_summary: what was paid in, by the flows that are no trade or dividend.
NetInvested == SumOfFlows({i \in DOMAIN flows : flows[i].type \in {"DEPOSIT", "WITHDRAW"}})

\* by_stock: a stock that was sold at all is realised, with everything that was
\* ever paid for it.
Realised == {s \in Stocks : TradesOf(s, "SELL") # {}}
RealisedPnl(s) == AmountOf(s, "SELL") - AmountOf(s, "BUY")

(* Faulty variant of TrackHolding: every purchase restarts the holding.    *)
TrackFromLastBuy(h, t) ==
    IF trades[t].type = "BUY" THEN [h EXCEPT !.open = trades[t].day]
    ELSE IF h.open = 0 THEN h
    ELSE [open |-> 0, days |-> Append(h.days, trades[t].day - h.open)]

\* _calc_avg_holding: the first purchase opens a holding, the next sale ends it.
TrackHolding(h, t) ==
    IF trades[t].type = "BUY" THEN [h EXCEPT !.open = IF @ = 0 THEN trades[t].day ELSE @]
    ELSE IF h.open = 0 THEN h
    ELSE [open |-> 0, days |-> Append(h.days, trades[t].day - h.open)]

\* The rows in the order of their dates, those of a day in that of their keys.
LaterOf(T) ==
    CHOOSE t \in T : \A u \in T :
        trades[u].day < trades[t].day \/ (trades[u].day = trades[t].day /\ u <= t)
Holding(s) ==
    MapThenFoldSet(LAMBDA t, h : TrackHolding(h, t), [open |-> 0, days |-> <<>>],
                   LAMBDA t : t, LaterOf, TradesOf(s, "BUY") \cup TradesOf(s, "SELL"))

-----------------------------------------------------------------------------
NothingVoided(s) ==
    \A t \in TradesOf(s, "BUY") \cup TradesOf(s, "SELL") : ~trades[t].void

SharesUpTo(s, type, t) ==
    SumFunctionOnSet([u \in DOMAIN trades |-> trades[u].shares],
                     {u \in TradesOf(s, type) : u <= t})
EverySaleCloses(s) ==
    \A t \in TradesOf(s, "SELL") : SharesUpTo(s, "BUY", t) = SharesUpTo(s, "SELL", t)

TradeFlowsOf(s) == {i \in DOMAIN flows : flows[i].trade # 0 /\ flows[i].stock = s}

(* The reports and the books, which share no code, agree on a stock none   *)
(* of whose trades was voided: its realised profit is what its trades      *)
(* brought in cash before fees and taxes, and, when its rows were recorded *)
(* day after day and every sale closed the position, the holding under way *)
(* began on the date the position carries, and no holding ended before it  *)
(* began. With no flow voided, the account holds what was paid in and what *)
(* its stocks brought (performance_service.py:66, :435, :470).             *)
ReportsFollowBooks ==
    /\ (\A i \in DOMAIN flows : ~flows[i].void) =>
           cash - Opening - NetInvested =
               SumOfFlows({i \in DOMAIN flows : flows[i].stock # NoStock})
    /\ \A s \in Stocks : NothingVoided(s) =>
        /\ s \in Realised => RealisedPnl(s) = SumOfFlows(TradeFlowsOf(s))
               + Fee * Cardinality(TradeFlowsOf(s)) + Tax * Cardinality(TradesOf(s, "SELL"))
        /\ InOrder(s) /\ EverySaleCloses(s) =>
               /\ Holding(s).open = pos[s].open
               /\ \A i \in DOMAIN Holding(s).days : Holding(s).days[i] >= 0
=============================================================================
