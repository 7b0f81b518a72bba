--------------------------- MODULE AccountLedger ---------------------------
(***************************************************************************)
(* AccountService for one account: the append-only trades and cash flows,  *)
(* their voiding, and the two things derived from them, account.cash and   *)
(* the positions.  Cash and positions are kept up to date incrementally    *)
(* when something is recorded; a voided row is taken back from cash, and   *)
(* the positions of its stock are rebuilt by replaying what is left.       *)
(*                                                                         *)
(* One request is one action: it runs in one database transaction, and     *)
(* get_db rolls it back as a whole when it raises.  Requests that overlap  *)
(* are the subject of AccountRequests.                                     *)
(***************************************************************************)
EXTENDS Integers, Sequences, FiniteSets, Folds, FiniteSetsExt

CONSTANTS
    Stocks, NoStock,        \* stocks; no stock at all
    Days,                   \* trade dates, as numbers
    Prices, Lots,           \* inputs: prices and share counts of trades,
    Amounts, Dividends,     \* cash amounts, dividends,
    Closes,                 \* and closing prices of the market
    Keys, NoKey,            \* idempotency keys of deposits and dividends
    Fee, Tax,               \* commission of a trade, stamp tax of a sale
    Scale,                  \* cost prices are kept in 1/Scale
    Opening,                \* cash of the account when it is set up
    MaxTrades, MaxFlows     \* bounds on the rows of the two tables

ASSUME LedgerAssumption ==
    /\ Days \subseteq Nat \ {0} /\ Prices \subseteq Nat /\ Lots \subseteq Nat \ {0}
    /\ NoStock \notin Stocks
    /\ Amounts \subseteq Nat /\ Dividends \subseteq Nat /\ Closes \subseteq Nat \ {0}
    /\ NoKey \notin Keys /\ Fee \in Nat /\ Tax \in Nat
    /\ Scale \in Nat \ {0} /\ Opening \in Int

VARIABLES
    trades, \* table trade_record, in order of its key
    flows,  \* table fund_flow, in order of its key
    cash,   \* account.cash
    pos,    \* table position; Flat where there is no row
    total   \* account.total_assets

vars == <<trades, flows, cash, pos, total>>

Phases == {"NONE", "BUILD", "HOLD", "REDUCE"}
Flat == [shares |-> 0, cost |-> 0, open |-> 0, phase |-> "NONE", value |-> 0]
Trade == [stock : Stocks, type : {"BUY", "SELL"}, day : Days, price : Prices,
          shares : Lots, void : BOOLEAN]
FlowTypes == {"DEPOSIT", "WITHDRAW", "DIVIDEND", "BUY_FEE", "SELL_PROCEEDS"}

Held(s) == pos[s].shares > 0

FlowTypeOK(f) ==
    /\ f.type \in FlowTypes /\ f.amount \in Int /\ f.day \in Days
    /\ f.stock \in Stocks \cup {NoStock} /\ f.key \in Keys \cup {NoKey}
    /\ f.trade \in 0..Len(trades) /\ f.void \in BOOLEAN

TypeOK ==
    /\ trades \in Seq(Trade) /\ Len(trades) <= MaxTrades
    /\ Len(flows) <= MaxFlows /\ \A i \in DOMAIN flows : FlowTypeOK(flows[i])
    /\ cash \in Int /\ total \in Int
    /\ \A s \in Stocks :
        /\ pos[s].shares \in Nat /\ pos[s].cost \in Int /\ pos[s].value \in Int
        /\ pos[s].open \in Days \cup {0} /\ pos[s].phase \in Phases
        /\ ~Held(s) => pos[s] = Flat

Init ==
    /\ trades = <<>> /\ flows = <<>>
    /\ cash = Opening /\ total = Opening
    /\ pos = [s \in Stocks |-> Flat]

-----------------------------------------------------------------------------
(* Replaying a position.                                                   *)

(* The replay computes costs in floating point, here as fractions; the     *)
(* column keeps a whole number of 1/Scale, half of one rounded away from   *)
(* zero.  What a request adds to a position starts from the column.        *)
Exactly(c) == [num |-> c, den |-> 1]
Stored(x) == IF x.num >= 0 THEN (2 * x.num + x.den) \div (2 * x.den)
                           ELSE -((x.den - 2 * x.num) \div (2 * x.den))

(* Average cost after buying n shares at p, the commission spread over it. *)
ComputeWac(held, cost, n, p, fee) ==
    [num |-> held * cost.num + (n * p + fee) * Scale * cost.den, den |-> (held + n) * cost.den]

(* Cost per share after a dividend on what is held.                        *)
LessDividend(held, cost, amount) ==
    [num |-> held * cost.num - amount * Scale * cost.den, den |-> held * cost.den]

KindOrder(kind) == CASE kind = "BUY" -> 0 [] kind = "DIVIDEND" -> 1 [] kind = "SELL" -> 2

(* Faulty variant of Precedes: the sort forgets the date.                  *)
PrecedesByKind(e, f) ==
    \/ KindOrder(e.kind) < KindOrder(f.kind)
    \/ KindOrder(e.kind) = KindOrder(f.kind) /\ e.seq < f.seq

(* Order of replay: by date, on one day BUY, DIVIDEND, SELL, then by key.  *)
Precedes(e, f) ==
    \/ e.day < f.day
    \/ /\ e.day = f.day
       /\ \/ KindOrder(e.kind) < KindOrder(f.kind)
          \/ KindOrder(e.kind) = KindOrder(f.kind) /\ e.seq < f.seq

(* The state of a replay; a sale of all that is held resets it.            *)
Blank == [ok |-> TRUE, shares |-> 0, cost |-> Exactly(0), open |-> 0, phase |-> "NONE"]

(* One event applied to a position; ok turns FALSE where OversellError is  *)
(* raised.                                                                 *)
ReplayEvent(p, e) ==
    IF ~p.ok THEN p
    ELSE CASE e.kind = "BUY" ->
                [p EXCEPT !.shares = @ + e.shares,
                          !.cost = ComputeWac(p.shares, @, e.shares, e.price, Fee),
                          !.open = IF @ = 0 THEN e.day ELSE @,
                          !.phase = "BUILD"]
           [] e.kind = "SELL" /\ e.shares > p.shares -> [p EXCEPT !.ok = FALSE]
           [] e.kind = "SELL" /\ e.shares = p.shares -> Blank
           [] e.kind = "SELL" /\ e.shares < p.shares ->
                [p EXCEPT !.shares = @ - e.shares, !.phase = "REDUCE"]
           [] e.kind = "DIVIDEND" ->
                IF p.shares > 0
                THEN [p EXCEPT !.cost = LessDividend(p.shares, @, e.amount)]
                ELSE p

LastEvent(S) == CHOOSE e \in S : \A f \in S \ {e} : Precedes(f, e)

(* Faulty variant of GatherReplayEvents: voided trades are replayed too.   *)
GatherAllEvents(s, tr, fl) ==
    {[kind |-> tr[t].type, day |-> tr[t].day, seq |-> t, shares |-> tr[t].shares,
      price |-> tr[t].price] : t \in {u \in DOMAIN tr : tr[u].stock = s}}
    \cup
    {[kind |-> "DIVIDEND", day |-> fl[i].day, seq |-> i, amount |-> fl[i].amount] :
      i \in {j \in DOMAIN fl :
                fl[j].type = "DIVIDEND" /\ fl[j].stock = s /\ ~fl[j].void}}

(* The events of stock s among the rows that are not voided.               *)
GatherReplayEvents(s, tr, fl) ==
    {[kind |-> tr[t].type, day |-> tr[t].day, seq |-> t, shares |-> tr[t].shares,
      price |-> tr[t].price] : t \in {u \in DOMAIN tr : tr[u].stock = s /\ ~tr[u].void}}
    \cup
    {[kind |-> "DIVIDEND", day |-> fl[i].day, seq |-> i, amount |-> fl[i].amount] :
      i \in {j \in DOMAIN fl :
                fl[j].type = "DIVIDEND" /\ fl[j].stock = s /\ ~fl[j].void}}

ReplayPosition(s, tr, fl) ==
    MapThenFoldSet(LAMBDA e, p : ReplayEvent(p, e), Blank,
                   LAMBDA e : e, LastEvent, GatherReplayEvents(s, tr, fl))

(* _apply_position_result: the price columns are cleared.                  *)
AsRow(p) == [shares |-> p.shares, cost |-> Stored(p.cost), open |-> p.open,
             phase |-> p.phase, value |-> 0]

-----------------------------------------------------------------------------
(* Recording.                                                              *)

Flow(type, amount, day, s, t, k) ==
    [type |-> type, amount |-> amount, day |-> day, stock |-> s, trade |-> t,
     key |-> k, void |-> FALSE]

(* record_trade, BUY: cash is not checked.                                 *)
RecordBuy(s, d, p, n) ==
    LET t == Len(trades) + 1
        out == -(p * n + Fee)
    IN  /\ trades' = Append(trades, [stock |-> s, type |-> "BUY", day |-> d, price |-> p,
                                     shares |-> n, void |-> FALSE])
        /\ flows' = Append(flows, Flow("BUY_FEE", out, d, s, t, NoKey))
        /\ cash' = cash + out
        /\ pos' = [pos EXCEPT ![s] =
              [pos[s] EXCEPT !.shares = @ + n, !.phase = "BUILD",
                             !.cost = Stored(ComputeWac(pos[s].shares, Exactly(@), n, p, Fee)),
                             !.open = IF Held(s) THEN @ ELSE d]]

(* Faulty variant of RecordSell: a closed position keeps its row's cost.   *)
RecordSellKeepingRow(s, d, p, n) ==
    LET t == Len(trades) + 1
        proceeds == p * n - Fee - Tax
    IN  /\ n <= pos[s].shares
        /\ trades' = Append(trades, [stock |-> s, type |-> "SELL", day |-> d, price |-> p,
                                     shares |-> n, void |-> FALSE])
        /\ flows' = Append(flows, Flow("SELL_PROCEEDS", proceeds, d, s, t, NoKey))
        /\ cash' = cash + proceeds
        /\ pos' = [pos EXCEPT ![s].shares = @ - n, ![s].phase = "REDUCE"]

(* record_trade, SELL: more than is held is refused; the row of a closed   *)
(* position is deleted.                                                    *)
RecordSell(s, d, p, n) ==
    LET t == Len(trades) + 1
        proceeds == p * n - Fee - Tax
    IN  /\ n <= pos[s].shares
        /\ trades' = Append(trades, [stock |-> s, type |-> "SELL", day |-> d, price |-> p,
                                     shares |-> n, void |-> FALSE])
        /\ flows' = Append(flows, Flow("SELL_PROCEEDS", proceeds, d, s, t, NoKey))
        /\ cash' = cash + proceeds
        /\ pos' = [pos EXCEPT ![s] =
              IF n = pos[s].shares THEN Flat
              ELSE [pos[s] EXCEPT !.shares = @ - n, !.phase = "REDUCE"]]

RecordTrade(s, d, p, n) ==
    /\ Len(trades) < MaxTrades /\ Len(flows) < MaxFlows
    /\ RecordBuy(s, d, p, n) \/ RecordSell(s, d, p, n)
    /\ UNCHANGED total

(* A key that was used, by a deposit or a dividend, voided or not, returns *)
(* the flow it was used for and changes nothing.                           *)
Fresh(k) == k = NoKey \/ \A i \in DOMAIN flows : flows[i].key # k

Deposit(a, d, k) ==
    /\ Len(flows) < MaxFlows /\ Fresh(k)
    /\ flows' = Append(flows, Flow("DEPOSIT", a, d, NoStock, 0, k))
    /\ cash' = cash + a
    /\ UNCHANGED <<trades, pos, total>>

Withdraw(a, d) ==
    /\ Len(flows) < MaxFlows /\ cash >= a
    /\ flows' = Append(flows, Flow("WITHDRAW", -a, d, NoStock, 0, NoKey))
    /\ cash' = cash - a
    /\ UNCHANGED <<trades, pos, total>>

(* The dividend lowers the cost of what is held now; after the position    *)
(* was closed only the flow is written.                                    *)
RecordDividend(s, a, d, k) ==
    /\ Len(flows) < MaxFlows /\ Fresh(k)
    /\ flows' = Append(flows, Flow("DIVIDEND", a, d, s, 0, k))
    /\ cash' = cash + a
    /\ pos' = IF Held(s)
              THEN [pos EXCEPT ![s].cost = Stored(LessDividend(pos[s].shares, Exactly(@), a))]
              ELSE pos
    /\ UNCHANGED <<trades, total>>

-----------------------------------------------------------------------------
(* Voiding.                                                                *)

TradeFlows(t) == {i \in DOMAIN flows : flows[i].trade = t /\ ~flows[i].void}
SumOfFlows(I) == SumFunctionOnSet([i \in DOMAIN flows |-> flows[i].amount], I)
VoidFlows(I) == [i \in DOMAIN flows |-> IF i \in I THEN [flows[i] EXCEPT !.void = TRUE]
                                                     ELSE flows[i]]
Rebuilt(s, p) == [pos EXCEPT ![s] = IF p.shares = 0 THEN Flat ELSE AsRow(p)]

(* Faulty variant of VoidTrade: the cash flow of the trade stays valid.    *)
VoidTradeOnly(t) ==
    LET s  == trades[t].stock
        tr == [trades EXCEPT ![t].void = TRUE]
        p  == ReplayPosition(s, tr, flows)
    IN  /\ ~trades[t].void /\ p.ok
        /\ trades' = tr
        /\ cash' = cash - SumOfFlows(TradeFlows(t))
        /\ pos' = Rebuilt(s, p)
        /\ UNCHANGED <<flows, total>>

(* Refused, with nothing changed, when a later sale would be left without  *)
(* shares to sell.                                                         *)
VoidTrade(t) ==
    LET s  == trades[t].stock
        tr == [trades EXCEPT ![t].void = TRUE]
        p  == ReplayPosition(s, tr, flows)
    IN  /\ ~trades[t].void /\ p.ok
        /\ trades' = tr
        /\ flows' = VoidFlows(TradeFlows(t))
        /\ cash' = cash - SumOfFlows(TradeFlows(t))
        /\ pos' = Rebuilt(s, p)
        /\ UNCHANGED total

(* Faulty variant of VoidFundFlow: a flow that was voided is voided again. *)
VoidFundFlowAgain(i) ==
    LET f  == flows[i]
        fl == VoidFlows({i})
        p  == ReplayPosition(f.stock, trades, fl)
    IN  /\ f.type \notin {"BUY_FEE", "SELL_PROCEEDS"}
        /\ f.type = "DIVIDEND" => p.ok
        /\ flows' = fl /\ cash' = cash - f.amount
        /\ pos' = IF f.type = "DIVIDEND" THEN Rebuilt(f.stock, p) ELSE pos
        /\ UNCHANGED <<trades, total>>

(* The cash flow of a trade is voided with its trade only; a dividend's    *)
(* effect on the cost is undone by replaying its stock.                    *)
VoidFundFlow(i) ==
    LET f  == flows[i]
        fl == VoidFlows({i})
        p  == ReplayPosition(f.stock, trades, fl)
    IN  /\ ~f.void /\ f.type \notin {"BUY_FEE", "SELL_PROCEEDS"}
        /\ f.type = "DIVIDEND" => p.ok
        /\ flows' = fl /\ cash' = cash - f.amount
        /\ pos' = IF f.type = "DIVIDEND" THEN Rebuilt(f.stock, p) ELSE pos
        /\ UNCHANGED <<trades, total>>

-----------------------------------------------------------------------------
(* Pricing.  q gives the closing price of a stock, 0 where there is none.  *)

Quotes == [Stocks -> Closes \cup {0}]
Priced(q) == [s \in Stocks |-> IF Held(s) /\ q[s] # 0
                               THEN [pos[s] EXCEPT !.value = q[s] * pos[s].shares] ELSE pos[s]]
Worth(rows) == cash + SumFunction([s \in Stocks |-> rows[s].value])

(* PATCH /positions: a price, a phase.                                     *)
UpdatePosition(s, c, ph) ==
    /\ Held(s)
    /\ pos' = [pos EXCEPT ![s].value = c * pos[s].shares, ![s].phase = ph]
    /\ UNCHANGED <<trades, flows, cash, total>>

(* q: the latest close of each stock, of whatever date.                    *)
SyncAccount(q) ==
    /\ pos' = Priced(q) /\ total' = Worth(Priced(q))
    /\ UNCHANGED <<trades, flows, cash>>

(* q: the closes of one date; others: has another account a position with  *)
(* a close that day?  Nothing is written for an account without positions, *)
(* and nothing at all when no position of any account has a close.         *)
MarkToMarket(q, others) ==
    /\ others \/ \E s \in Stocks : q[s] # 0
    /\ IF (\E s \in Stocks : Held(s)) /\ (others \/ \E s \in Stocks : Held(s) /\ q[s] # 0)
       THEN pos' = Priced(q) /\ total' = Worth(Priced(q))
       ELSE UNCHANGED <<pos, total>>
    /\ UNCHANGED <<trades, flows, cash>>

Next ==
    \/ \E s \in Stocks, d \in Days, p \in Prices, n \in Lots : RecordTrade(s, d, p, n)
    \/ \E a \in Amounts, d \in Days, k \in Keys \cup {NoKey} : Deposit(a, d, k)
    \/ \E a \in Amounts, d \in Days : Withdraw(a, d)
    \/ \E s \in Stocks, a \in Dividends, d \in Days, k \in Keys \cup {NoKey} :
        RecordDividend(s, a, d, k)
    \/ \E t \in DOMAIN trades : VoidTrade(t)
    \/ \E i \in DOMAIN flows : VoidFundFlow(i)
    \/ \E s \in Stocks, c \in Closes, ph \in Phases \ {"NONE"} : UpdatePosition(s, c, ph)
    \/ \E q \in Quotes : SyncAccount(q)
    \/ \E q \in Quotes, others \in BOOLEAN : MarkToMarket(q, others)

Spec == Init /\ [][Next]_vars

-----------------------------------------------------------------------------
(* Properties.                                                             *)

(* The money: through any sequence of recording and voiding, account.cash  *)
(* is the opening cash plus the flows that are not voided, although the    *)
(* code never computes that sum and only adds and takes back single rows.  *)
CashIsLedger ==
    cash = Opening + SumOfFlows({i \in DOMAIN flows : ~flows[i].void})

(* The shares of a position are those bought less those sold in the trades *)
(* that are not voided, whatever the order in which they were recorded and *)
(* voided.                                                                 *)
SharesAreLedger ==
    \A s \in Stocks :
        LET Of(type) == {t \in DOMAIN trades : /\ trades[t].stock = s /\ ~trades[t].void
                                               /\ trades[t].type = type}
            Sum(T) == SumFunctionOnSet([t \in DOMAIN trades |-> trades[t].shares], T)
        IN  pos[s].shares = Sum(Of("BUY")) - Sum(Of("SELL"))

Settles(f, tr, t) ==
    /\ f.trade = t /\ f.stock = tr.stock /\ f.void = tr.void
    /\ f.type = IF tr.type = "BUY" THEN "BUY_FEE" ELSE "SELL_PROCEEDS"

(* A trade and its cash flow live and die together: every trade has exactly *)
(* one flow that names it, of the right type and stock, voided if and only  *)
(* if the trade is, so that no void can be half done.                       *)
FlowFollowsTrade ==
    /\ \A t \in DOMAIN trades : \E i \in DOMAIN flows : Settles(flows[i], trades[t], t)
    /\ \A i, j \in DOMAIN flows : i # j /\ flows[i].trade # 0 => flows[i].trade # flows[j].trade

(* c is within k halves of the column's last decimal of x.                 *)
Close(c, x, k) == 2 * (c * x.den - x.num) \in -(k * x.den) .. k * x.den

IsReplay(s) ==
    LET p == ReplayPosition(s, trades, flows)
    IN  /\ p.ok /\ pos[s].shares = p.shares /\ pos[s].open = p.open
        /\ Close(pos[s].cost, p.cost, Cardinality(GatherReplayEvents(s, trades, flows)))

InOrder(s) ==
    \A i, j \in DOMAIN flows :
        i < j /\ flows[i].stock = s /\ flows[j].stock = s => flows[i].day < flows[j].day

(* A position is replay_position of the rows that are not voided: the      *)
(* shares and the opening date that record_trade and record_dividend keep  *)
(* up to date incrementally are those a rebuild would find, and the cost   *)
(* has drifted from it by at most the rounding of one stored value for     *)
(* each of those rows, so that a void never changes more than it should.   *)
PositionIsReplay == \A s \in Stocks : IsReplay(s)

(* The same for a stock whose rows were recorded on one day after another, *)
(* in whatever order they were voided.                                     *)
InOrderIsReplay == \A s \in Stocks : InOrder(s) => IsReplay(s)
=============================================================================
