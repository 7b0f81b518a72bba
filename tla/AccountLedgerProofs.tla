------------------------ MODULE AccountLedgerProofs ------------------------
(***************************************************************************)
(* What holds of AccountLedger for any stocks, dates, inputs and bounds.   *)
(***************************************************************************)
EXTENDS PerformanceReport, InductionLemmas

(* A row of fund_flow, and the shape of the two tables.                    *)
FlowRow == [type : FlowTypes, amount : Int, day : Days, stock : Stocks \cup {NoStock},
            trade : Nat, key : Keys \cup {NoKey}, void : BOOLEAN]

Tables ==
    /\ trades \in Seq(Trade) /\ flows \in Seq(FlowRow)
    /\ \A i \in DOMAIN flows : flows[i].trade <= Len(trades)

(* FlowFollowsTrade, its two halves named.                                 *)
EachHasFlow ==
    \A t \in DOMAIN trades : \E i \in DOMAIN flows : Settles(flows[i], trades[t], t)
OneFlowEach ==
    \A i, j \in DOMAIN flows : i # j /\ flows[i].trade # 0 => flows[i].trade # flows[j].trade

Inv == Tables /\ EachHasFlow /\ OneFlowEach

(* The rows of tables of that shape.                                       *)
LEMMA Rows ==
  ASSUME Tables
  PROVE  /\ Len(trades) \in Nat /\ \A t \in DOMAIN trades : trades[t] \in Trade
         /\ \A i \in DOMAIN flows : flows[i] \in FlowRow
         /\ \A i \in DOMAIN flows : flows[i].trade \in Nat /\ flows[i].void \in BOOLEAN
<1>1. /\ Len(trades) \in Nat /\ \A t \in DOMAIN trades : trades[t] \in Trade
      /\ \A i \in DOMAIN flows : flows[i] \in FlowRow
  BY DEF Tables
<1>2. \A i \in DOMAIN flows : flows[i].trade \in Nat /\ flows[i].void \in BOOLEAN
  BY <1>1 DEF FlowRow
<1> QED BY <1>1, <1>2

(* The empty tables.                                                       *)
LEMMA InitInv == Init => Inv
  BY DEF Init, Inv, Tables, EachHasFlow, OneFlowEach

(* A trade appended together with a flow that names it.                    *)
LEMMA AppendTrade ==
  ASSUME Inv, NEW tr \in Trade, NEW f \in FlowRow, tr.void = FALSE, f.void = FALSE,
         f.trade = Len(trades) + 1, f.stock = tr.stock,
         f.type = IF tr.type = "BUY" THEN "BUY_FEE" ELSE "SELL_PROCEEDS",
         trades' = Append(trades, tr), flows' = Append(flows, f)
  PROVE  Inv'
<1> USE DEF Inv, Tables
<1>1. Tables'
  <2>1. trades' \in Seq(Trade) /\ flows' \in Seq(FlowRow) /\ Len(trades') = Len(trades) + 1
    OBVIOUS
  <2>2. \A i \in DOMAIN flows' : \/ i \in DOMAIN flows /\ flows'[i] = flows[i]
                                 \/ flows'[i] = f
    OBVIOUS
  <2>3. \A i \in DOMAIN flows : flows[i].trade \in Nat
    BY Rows
  <2>4. Len(trades) \in Nat
    OBVIOUS
  <2>5. \A i \in DOMAIN flows' : flows'[i].trade <= Len(trades')
    BY <2>1, <2>2, <2>3, <2>4
  <2> QED BY <2>1, <2>5
<1>2. EachHasFlow'
  <2> SUFFICES ASSUME NEW t \in DOMAIN trades'
               PROVE  \E i \in DOMAIN flows' : Settles(flows'[i], trades'[t], t)
    BY DEF EachHasFlow
  <2>1. CASE t = Len(trades) + 1
    <3>1. Len(flows) + 1 \in DOMAIN flows' /\ flows'[Len(flows) + 1] = f /\ trades'[t] = tr
      BY <2>1
    <3>2. Settles(f, tr, t)
      BY <2>1 DEF Settles
    <3> QED BY <3>1, <3>2
  <2>2. CASE t # Len(trades) + 1
    <3>1. t \in DOMAIN trades /\ trades'[t] = trades[t]
      BY <2>2
    <3>2. PICK i \in DOMAIN flows : Settles(flows[i], trades[t], t)
      BY <3>1 DEF EachHasFlow
    <3>3. i \in DOMAIN flows' /\ flows'[i] = flows[i]
      OBVIOUS
    <3> QED BY <3>1, <3>2, <3>3
  <2> QED BY <2>1, <2>2
<1>3. OneFlowEach'
  <2> SUFFICES ASSUME NEW i \in DOMAIN flows', NEW j \in DOMAIN flows',
                      i # j, flows'[i].trade # 0
               PROVE  flows'[i].trade # flows'[j].trade
    BY DEF OneFlowEach
  <2>1. \A k \in DOMAIN flows' : \/ k \in DOMAIN flows /\ flows'[k] = flows[k]
                                 \/ k = Len(flows) + 1 /\ flows'[k] = f
    OBVIOUS
  <2>2. \A k \in DOMAIN flows : flows[k].trade \in Nat /\ flows[k].trade < f.trade
    <3>1. \A k \in DOMAIN flows : flows[k].trade \in Nat
      BY Rows
    <3>2. Len(trades) \in Nat
      OBVIOUS
    <3> QED BY <3>1, <3>2
  <2>3. f.trade = f.trade /\ (i \in DOMAIN flows \/ j \in DOMAIN flows)
    BY <2>1
  <2> QED BY <2>1, <2>2, <2>3 DEF OneFlowEach
<1> QED BY <1>1, <1>2, <1>3

(* A flow of no trade appended.                                            *)
LEMMA AppendFlow ==
  ASSUME Inv, NEW f \in FlowRow, f.trade = 0, flows' = Append(flows, f), UNCHANGED trades
  PROVE  Inv'
<1> USE DEF Inv, Tables
<1>1. Tables'
  <2>1. trades' \in Seq(Trade) /\ flows' \in Seq(FlowRow) /\ Len(trades') \in Nat
    OBVIOUS
  <2>2. \A i \in DOMAIN flows' : \/ i \in DOMAIN flows /\ flows'[i] = flows[i]
                                 \/ flows'[i] = f
    OBVIOUS
  <2> QED BY <2>1, <2>2
<1>2. \A i \in DOMAIN flows : i \in DOMAIN flows' /\ flows'[i] = flows[i]
  OBVIOUS
<1>3. EachHasFlow'
  <2> SUFFICES ASSUME NEW t \in DOMAIN trades
               PROVE  \E i \in DOMAIN flows' : Settles(flows'[i], trades[t], t)
    BY DEF EachHasFlow
  <2>1. PICK i \in DOMAIN flows : Settles(flows[i], trades[t], t)
    BY DEF EachHasFlow
  <2> QED BY <1>2, <2>1
<1>4. \A k \in DOMAIN flows' : \/ k \in DOMAIN flows /\ flows'[k] = flows[k]
                               \/ flows'[k] = f
  OBVIOUS
<1>5. OneFlowEach'
  BY <1>2, <1>4 DEF OneFlowEach
<1> QED BY <1>1, <1>3, <1>5

(* Voiding rows changes nothing else of the tables.                        *)
LEMMA VoidedTrade ==
  ASSUME Tables, NEW t \in DOMAIN trades, trades' = [trades EXCEPT ![t].void = TRUE]
  PROVE  /\ trades' \in Seq(Trade) /\ DOMAIN trades' = DOMAIN trades
         /\ \A u \in DOMAIN trades :
              /\ trades'[u].stock = trades[u].stock /\ trades'[u].type = trades[u].type
              /\ trades'[u].day = trades[u].day /\ trades'[u].price = trades[u].price
              /\ trades'[u].shares = trades[u].shares
         /\ \A u \in DOMAIN trades : trades'[u].void <=> u = t \/ trades[u].void
<1>1. trades \in Seq(Trade) /\ \A u \in DOMAIN trades : trades[u] \in Trade
  BY DEF Tables
<1>2. [trades[t] EXCEPT !.void = TRUE] \in Trade
  BY <1>1 DEF Trade
<1>3. trades' \in Seq(Trade) /\ DOMAIN trades' = DOMAIN trades
  BY <1>1, <1>2
<1>4. ASSUME NEW u \in DOMAIN trades
      PROVE  /\ trades'[u].stock = trades[u].stock /\ trades'[u].type = trades[u].type
             /\ trades'[u].day = trades[u].day /\ trades'[u].price = trades[u].price
             /\ trades'[u].shares = trades[u].shares
             /\ trades'[u].void <=> u = t \/ trades[u].void
  <2>1. DOMAIN trades[u] = {"stock", "type", "day", "price", "shares", "void"}
    BY <1>1 DEF Trade
  <2>2. CASE u = t
    <3>1. trades'[u] = [trades[u] EXCEPT !.void = TRUE]
      BY <1>1, <2>2
    <3> QED BY <2>1, <2>2, <3>1
  <2>3. CASE u # t
    <3>1. trades'[u] = trades[u]
      BY <1>1, <2>3
    <3> QED BY <2>3, <3>1
  <2> QED BY <2>2, <2>3
<1> QED BY <1>3, <1>4

(* Voiding flows changes their flags only.                                 *)
LEMMA VoidedFlowRows ==
  ASSUME Tables, NEW I \in SUBSET DOMAIN flows, flows' = VoidFlows(I)
  PROVE  /\ flows' \in Seq(FlowRow) /\ DOMAIN flows' = DOMAIN flows
         /\ \A i \in DOMAIN flows :
              /\ flows'[i].trade = flows[i].trade /\ flows'[i].stock = flows[i].stock
              /\ flows'[i].type = flows[i].type /\ flows'[i].day = flows[i].day
              /\ flows'[i].amount = flows[i].amount
              /\ flows'[i].void <=> i \in I \/ flows[i].void
<1>1. flows \in [1..Len(flows) -> FlowRow] /\ Len(flows) \in Nat
  BY DEF Tables
<1>2. \A i \in DOMAIN flows : [flows[i] EXCEPT !.void = TRUE] \in FlowRow
  BY Rows DEF FlowRow
<1>3. VoidFlows(I) \in [1..Len(flows) -> FlowRow]
  BY <1>1, <1>2 DEF VoidFlows
<1>4. flows' \in Seq(FlowRow) /\ DOMAIN flows' = DOMAIN flows
  BY <1>1, <1>3
<1>5. ASSUME NEW i \in DOMAIN flows
      PROVE  /\ flows'[i].trade = flows[i].trade /\ flows'[i].stock = flows[i].stock
             /\ flows'[i].type = flows[i].type /\ flows'[i].day = flows[i].day
             /\ flows'[i].amount = flows[i].amount
             /\ flows'[i].void <=> i \in I \/ flows[i].void
  BY <1>1, <1>5 DEF VoidFlows, FlowRow
<1> QED BY <1>4, <1>5

(* Voiding flows changes nothing else of the table.                        *)
LEMMA VoidedFlows ==
  ASSUME Inv, NEW I \in SUBSET DOMAIN flows, flows' = VoidFlows(I)
  PROVE  /\ flows' \in Seq(FlowRow) /\ DOMAIN flows' = DOMAIN flows
         /\ \A i \in DOMAIN flows :
              /\ flows'[i].trade = flows[i].trade /\ flows'[i].stock = flows[i].stock
              /\ flows'[i].type = flows[i].type
              /\ flows'[i].void = IF i \in I THEN TRUE ELSE flows[i].void
<1>1. /\ flows' \in Seq(FlowRow) /\ DOMAIN flows' = DOMAIN flows
      /\ \A i \in DOMAIN flows :
           /\ flows'[i].trade = flows[i].trade /\ flows'[i].stock = flows[i].stock
           /\ flows'[i].type = flows[i].type
      /\ \A i \in DOMAIN flows : flows'[i].void <=> i \in I \/ flows[i].void
  BY VoidedFlowRows DEF Inv
<1>2. \A i \in DOMAIN flows : flows[i].void \in BOOLEAN /\ flows'[i].void \in BOOLEAN
  <2>1. \A i \in DOMAIN flows : flows'[i] \in FlowRow
    BY <1>1
  <2>2. \A i \in DOMAIN flows : flows[i].void \in BOOLEAN
    BY Rows DEF Inv
  <2> QED BY <2>1, <2>2 DEF FlowRow
<1>3. \A i \in DOMAIN flows : flows'[i].void = IF i \in I THEN TRUE ELSE flows[i].void
  BY <1>1, <1>2
<1> QED BY <1>1, <1>3

(* Every request keeps the invariant; so do the steps that only price.     *)
LEMMA StepInv == LedgerAssumption /\ Inv /\ [Next]_vars => Inv'
<1> SUFFICES ASSUME LedgerAssumption, Inv, [Next]_vars PROVE Inv'
  OBVIOUS
<1>1. ASSUME UNCHANGED <<trades, flows>> PROVE Inv'
  BY <1>1 DEF Inv, Tables, EachHasFlow, OneFlowEach
<1>2. ASSUME NEW s \in Stocks, NEW d \in Days, NEW p \in Prices, NEW n \in Lots,
             RecordTrade(s, d, p, n)
      PROVE  Inv'
  <2> DEFINE t == Len(trades) + 1
             buy == [stock |-> s, type |-> "BUY", day |-> d, price |-> p,
                     shares |-> n, void |-> FALSE]
             sell == [stock |-> s, type |-> "SELL", day |-> d, price |-> p,
                      shares |-> n, void |-> FALSE]
  <2>1. p \in Nat /\ n \in Nat /\ Fee \in Nat /\ Tax \in Nat /\ t \in Nat
    BY DEF LedgerAssumption, Inv, Tables
  <2>2. -(p * n + Fee) \in Int /\ p * n - Fee - Tax \in Int
    BY <2>1
  <2>3. CASE RecordBuy(s, d, p, n)
    <3>1. /\ buy \in Trade
          /\ Flow("BUY_FEE", -(p * n + Fee), d, s, t, NoKey) \in FlowRow
      BY <2>1, <2>2 DEF Trade, Flow, FlowRow, FlowTypes
    <3>2. /\ trades' = Append(trades, buy)
          /\ flows' = Append(flows, Flow("BUY_FEE", -(p * n + Fee), d, s, t, NoKey))
      BY <2>3 DEF RecordBuy
    <3> HIDE DEF t
    <3> QED BY <3>1, <3>2, AppendTrade DEF Flow, t
  <2>4. CASE RecordSell(s, d, p, n)
    <3>1. /\ sell \in Trade
          /\ Flow("SELL_PROCEEDS", p * n - Fee - Tax, d, s, t, NoKey) \in FlowRow
      BY <2>1, <2>2 DEF Trade, Flow, FlowRow, FlowTypes
    <3>2. /\ trades' = Append(trades, sell)
          /\ flows' = Append(flows, Flow("SELL_PROCEEDS", p * n - Fee - Tax, d, s, t, NoKey))
      BY <2>4 DEF RecordSell
    <3> HIDE DEF t
    <3> QED BY <3>1, <3>2, AppendTrade DEF Flow, t
  <2> QED BY <1>2, <2>3, <2>4 DEF RecordTrade
<1>3. ASSUME NEW a \in Amounts, NEW d \in Days, NEW k \in Keys \cup {NoKey}, Deposit(a, d, k)
      PROVE  Inv'
  <2>1. Flow("DEPOSIT", a, d, NoStock, 0, k) \in FlowRow
    BY DEF LedgerAssumption, Flow, FlowRow, FlowTypes
  <2> QED BY <1>3, <2>1, AppendFlow DEF Deposit, Flow
<1>4. ASSUME NEW a \in Amounts, NEW d \in Days, Withdraw(a, d)
      PROVE  Inv'
  <2>1. a \in Nat /\ -a \in Int
    BY DEF LedgerAssumption
  <2>2. Flow("WITHDRAW", -a, d, NoStock, 0, NoKey) \in FlowRow
    BY <2>1 DEF Flow, FlowRow, FlowTypes
  <2> QED BY <1>4, <2>2, AppendFlow DEF Withdraw, Flow
<1>5. ASSUME NEW s \in Stocks, NEW a \in Dividends, NEW d \in Days,
             NEW k \in Keys \cup {NoKey}, RecordDividend(s, a, d, k)
      PROVE  Inv'
  <2>1. Flow("DIVIDEND", a, d, s, 0, k) \in FlowRow
    BY DEF LedgerAssumption, Flow, FlowRow, FlowTypes
  <2> QED BY <1>5, <2>1, AppendFlow DEF RecordDividend, Flow
<1>6. ASSUME NEW t \in DOMAIN trades, VoidTrade(t)
      PROVE  Inv'
  <2> DEFINE I == TradeFlows(t)
  <2>1. /\ trades' = [trades EXCEPT ![t].void = TRUE] /\ ~trades[t].void
        /\ flows' = VoidFlows(I)
    BY <1>6 DEF VoidTrade
  <2>7. I \in SUBSET DOMAIN flows
    BY DEF TradeFlows
  <2>2. /\ flows' \in Seq(FlowRow) /\ DOMAIN flows' = DOMAIN flows
        /\ \A i \in DOMAIN flows :
             /\ flows'[i].trade = flows[i].trade /\ flows'[i].stock = flows[i].stock
             /\ flows'[i].type = flows[i].type
             /\ flows'[i].void = IF i \in I THEN TRUE ELSE flows[i].void
    <3> HIDE DEF I
    <3> QED BY <2>1, <2>7, VoidedFlows
  <2>3. /\ trades' \in Seq(Trade) /\ Len(trades') = Len(trades)
        /\ DOMAIN trades' = DOMAIN trades
        /\ \A u \in DOMAIN trades :
             /\ trades'[u].stock = trades[u].stock /\ trades'[u].type = trades[u].type
             /\ trades'[u].void = IF u = t THEN TRUE ELSE trades[u].void
    <3>1. /\ trades' \in Seq(Trade) /\ DOMAIN trades' = DOMAIN trades
          /\ \A u \in DOMAIN trades :
               trades'[u].stock = trades[u].stock /\ trades'[u].type = trades[u].type
          /\ \A u \in DOMAIN trades : trades'[u].void <=> u = t \/ trades[u].void
      BY <2>1, VoidedTrade DEF Inv
    <3>2. \A u \in DOMAIN trades : trades[u] \in Trade /\ trades'[u] \in Trade
      BY <3>1, Rows DEF Inv
    <3>3. \A u \in DOMAIN trades : trades[u].void \in BOOLEAN /\ trades'[u].void \in BOOLEAN
      BY <3>2 DEF Trade
    <3>4. \A u \in DOMAIN trades : trades'[u].void = IF u = t THEN TRUE ELSE trades[u].void
      BY <3>1, <3>3
    <3>5. Len(trades') = Len(trades)
      BY <2>1 DEF Inv, Tables
    <3> QED BY <3>1, <3>4, <3>5
  <2>4. Tables'
    BY <2>2, <2>3 DEF Inv, Tables
  <2>5. EachHasFlow'
    <3> SUFFICES ASSUME NEW u \in DOMAIN trades
                 PROVE  \E i \in DOMAIN flows : Settles(flows'[i], trades'[u], u)
      BY <2>2, <2>3 DEF EachHasFlow
    <3>1. PICK i \in DOMAIN flows : Settles(flows[i], trades[u], u)
      BY DEF Inv, EachHasFlow
    <3>2. i \in I <=> u = t /\ ~trades[u].void
      BY <3>1 DEF TradeFlows, Settles
    <3>3. u = t => i \in I
      BY <3>2, <2>1
    <3>4. flows'[i].void = trades'[u].void
      <4> HIDE DEF I
      <4>1. CASE u = t
        BY <4>1, <3>3, <2>2, <2>3 DEF Settles
      <4>2. CASE u # t
        BY <4>2, <3>1, <3>2, <2>2, <2>3 DEF Settles
      <4> QED BY <4>1, <4>2
    <3> HIDE DEF I
    <3>5. Settles(flows'[i], trades'[u], u)
      BY <3>1, <3>4, <2>2, <2>3 DEF Settles
    <3> QED BY <3>5
  <2>6. OneFlowEach'
    <3> HIDE DEF I
    <3>1. \A i, j \in DOMAIN flows : i # j /\ flows[i].trade # 0 => flows[i].trade # flows[j].trade
      BY DEF Inv, OneFlowEach
    <3>2. DOMAIN flows' = DOMAIN flows /\ \A i \in DOMAIN flows : flows'[i].trade = flows[i].trade
      BY <2>2
    <3> QED BY <3>1, <3>2 DEF OneFlowEach
  <2> QED BY <2>4, <2>5, <2>6 DEF Inv
<1>7. ASSUME NEW i \in DOMAIN flows, VoidFundFlow(i)
      PROVE  Inv'
  <2>1. /\ flows' = VoidFlows({i}) /\ UNCHANGED trades
        /\ flows[i].type \notin {"BUY_FEE", "SELL_PROCEEDS"}
    BY <1>7 DEF VoidFundFlow
  <2>2. /\ flows' \in Seq(FlowRow) /\ DOMAIN flows' = DOMAIN flows
        /\ \A j \in DOMAIN flows :
             /\ flows'[j].trade = flows[j].trade /\ flows'[j].stock = flows[j].stock
             /\ flows'[j].type = flows[j].type
             /\ flows'[j].void = IF j \in {i} THEN TRUE ELSE flows[j].void
    <3>1. {i} \in SUBSET DOMAIN flows
      OBVIOUS
    <3> DEFINE I == {i}
    <3> HIDE DEF I
    <3>2. /\ flows' \in Seq(FlowRow) /\ DOMAIN flows' = DOMAIN flows
          /\ \A j \in DOMAIN flows :
               /\ flows'[j].trade = flows[j].trade /\ flows'[j].stock = flows[j].stock
               /\ flows'[j].type = flows[j].type
               /\ flows'[j].void = IF j \in I THEN TRUE ELSE flows[j].void
      BY <2>1, <3>1, VoidedFlows DEF I
    <3> QED BY <3>2 DEF I
  <2>3. Tables'
    BY <2>1, <2>2 DEF Inv, Tables
  <2>5. OneFlowEach'
    <3>1. \A k, j \in DOMAIN flows : k # j /\ flows[k].trade # 0 => flows[k].trade # flows[j].trade
      BY DEF Inv, OneFlowEach
    <3>2. DOMAIN flows' = DOMAIN flows /\ \A k \in DOMAIN flows : flows'[k].trade = flows[k].trade
      BY <2>2
    <3> QED BY <3>1, <3>2 DEF OneFlowEach
  <2>4. EachHasFlow'
    <3> SUFFICES ASSUME NEW u \in DOMAIN trades
                 PROVE  \E j \in DOMAIN flows : Settles(flows'[j], trades[u], u)
      BY <2>1, <2>2 DEF EachHasFlow
    <3>1. PICK j \in DOMAIN flows : Settles(flows[j], trades[u], u)
      BY DEF Inv, EachHasFlow
    <3>2. j # i
      BY <3>1, <2>1 DEF Settles
    <3>3. flows'[j].void = flows[j].void
      BY <3>2, <2>2
    <3>5. /\ flows'[j].trade = flows[j].trade /\ flows'[j].stock = flows[j].stock
          /\ flows'[j].type = flows[j].type
      BY <2>2
    <3>4. Settles(flows'[j], trades[u], u)
      BY <3>1, <3>3, <3>5 DEF Settles
    <3> QED BY <3>4
  <2> QED BY <2>3, <2>4, <2>5 DEF Inv
<1>8. CASE UNCHANGED vars
  BY <1>1, <1>8 DEF vars
<1>9. ASSUME NEW s \in Stocks, NEW c \in Closes, NEW ph \in Phases, UpdatePosition(s, c, ph)
      PROVE  Inv'
  BY <1>1, <1>9 DEF UpdatePosition
<1>10. ASSUME NEW q \in Quotes, SyncAccount(q)
       PROVE  Inv'
  BY <1>1, <1>10 DEF SyncAccount
<1>11. ASSUME NEW q \in Quotes, NEW others \in BOOLEAN, MarkToMarket(q, others)
       PROVE  Inv'
  BY <1>1, <1>11 DEF MarkToMarket
<1> QED
  BY <1>2, <1>3, <1>4, <1>5, <1>6, <1>7, <1>8, <1>9, <1>10, <1>11 DEF Next

(* The tables keep their shape, and a trade and its flow stay together.    *)
THEOREM LedgerInvariance == Spec => []Inv
<1>1. LedgerAssumption
  BY LedgerAssumption
<1> QED BY <1>1, InitInv, StepInv, PTL DEF Spec

(* void_trade and void_fund_flow, in any sequence of requests and for any  *)
(* stocks, dates and amounts, never leave a trade and its flow apart.      *)
THEOREM FlowsFollowTrades == Spec => []FlowFollowsTrade
<1>1. Inv => FlowFollowsTrade
  BY DEF Inv, EachHasFlow, OneFlowEach, FlowFollowsTrade
<1> QED BY <1>1, LedgerInvariance, PTL

-----------------------------------------------------------------------------
(* The money.                                                              *)
Valid == {i \in DOMAIN flows : ~flows[i].void}
AmountOfFlow == [i \in DOMAIN flows |-> flows[i].amount]

CashInv == cash \in Int /\ CashIsLedger

(* There are finitely many rows, and every amount is a number.             *)
LEMMA FlowsAreFinite ==
  ASSUME Tables
  PROVE  /\ IsFiniteSet(DOMAIN flows) /\ IsFiniteSet(DOMAIN trades)
         /\ \A i \in DOMAIN flows : AmountOfFlow[i] \in Int
<1>1. DOMAIN flows = 1..Len(flows) /\ Len(flows) \in Nat
      /\ DOMAIN trades = 1..Len(trades) /\ Len(trades) \in Nat
  BY DEF Tables
<1>2. IsFiniteSet(1..Len(flows)) /\ IsFiniteSet(1..Len(trades))
  BY <1>1, FS_Interval
<1>3. \A i \in DOMAIN flows : AmountOfFlow[i] \in Int
  BY Rows DEF AmountOfFlow, FlowRow
<1> QED BY <1>1, <1>2, <1>3

(* A flow appended and its amount added to the cash.                       *)
LEMMA AppendCash ==
  ASSUME Tables, CashInv, NEW f \in FlowRow, f.void = FALSE,
         flows' = Append(flows, f), cash' = cash + f.amount, Opening \in Int
  PROVE  CashInv'
<1> DEFINE x == Len(flows) + 1
<1>1. flows \in Seq(FlowRow) /\ Len(flows) \in Nat /\ f.amount \in Int
  BY DEF Tables, FlowRow
<1>2. /\ DOMAIN flows' = DOMAIN flows \cup {x} /\ x \notin DOMAIN flows
      /\ flows'[x] = f /\ \A i \in DOMAIN flows : flows'[i] = flows[i]
  BY <1>1
<1>3. Valid' = Valid \cup {x} /\ x \notin Valid
  BY <1>2 DEF Valid
<1>4. IsFiniteSet(Valid)
  BY FlowsAreFinite, FS_Subset DEF Valid
<1> DEFINE g == [i \in DOMAIN flows' |-> flows'[i].amount]
<1>5. /\ \A i \in Valid : g[i] = AmountOfFlow[i] /\ g[i] \in Int
      /\ g[x] = f.amount /\ g[x] \in Int
  BY <1>1, <1>2, FlowsAreFinite DEF Valid, AmountOfFlow
<1> HIDE DEF g, x
<1>6. SumFunctionOnSet(g, Valid \cup {x}) = SumFunctionOnSet(g, Valid) + g[x]
  BY <1>3, <1>4, <1>5, SumOfOneMore
<1>7. SumFunctionOnSet(g, Valid) = SumFunctionOnSet(AmountOfFlow, Valid)
  BY <1>4, <1>5, SumOfEquals
<1>8. SumFunctionOnSet(AmountOfFlow, Valid) \in Int
  BY <1>4, <1>5, SumOfInts
<1>9. cash = Opening + SumFunctionOnSet(AmountOfFlow, Valid)
  BY DEF CashInv, CashIsLedger, SumOfFlows, Valid, AmountOfFlow
<1>10. cash' = Opening + SumFunctionOnSet(g, Valid')
  BY <1>3, <1>5, <1>6, <1>7, <1>8, <1>9
<1>11. cash' \in Int
  BY <1>1 DEF CashInv
<1>12. CashIsLedger'
  BY <1>10 DEF CashIsLedger, SumOfFlows, Valid, g
<1> QED BY <1>11, <1>12 DEF CashInv

(* Valid flows voided and their sum taken back from the cash.              *)
LEMMA VoidCash ==
  ASSUME Inv, CashInv, NEW I \in SUBSET Valid,
         flows' = VoidFlows(I), cash' = cash - SumOfFlows(I), Opening \in Int
  PROVE  CashInv'
<1>1. I \in SUBSET DOMAIN flows /\ Tables
  BY DEF Valid, Inv
<1>2. DOMAIN flows' = DOMAIN flows
      /\ \A i \in DOMAIN flows : flows'[i].void = IF i \in I THEN TRUE ELSE flows[i].void
  BY <1>1, VoidedFlows
<1>3. Valid' = Valid \ I
  BY <1>1, <1>2 DEF Valid
<1>4. \A i \in DOMAIN flows : flows'[i].amount = flows[i].amount
  <2>1. \A i \in DOMAIN flows : flows[i] \in FlowRow
    BY <1>1, Rows
  <2> QED BY <2>1 DEF VoidFlows, FlowRow
<1>5. AmountOfFlow' = AmountOfFlow
  BY <1>2, <1>4 DEF AmountOfFlow
<1>6. IsFiniteSet(Valid) /\ IsFiniteSet(I)
  BY <1>1, FlowsAreFinite, FS_Subset DEF Valid
<1>7. \A i \in Valid : AmountOfFlow[i] \in Int
  BY <1>1, FlowsAreFinite DEF Valid
<1>8. SumFunctionOnSet(AmountOfFlow, Valid \ I)
        = SumFunctionOnSet(AmountOfFlow, Valid) - SumFunctionOnSet(AmountOfFlow, I)
  BY <1>6, <1>7, SumOfRest
<1>9. /\ SumFunctionOnSet(AmountOfFlow, Valid) \in Int
      /\ SumFunctionOnSet(AmountOfFlow, I) \in Int
  BY <1>6, <1>7, SumOfInts
<1>10. cash = Opening + SumFunctionOnSet(AmountOfFlow, Valid)
  BY DEF CashInv, CashIsLedger, SumOfFlows, Valid, AmountOfFlow
<1>11. cash' = cash - SumFunctionOnSet(AmountOfFlow, I)
  BY DEF SumOfFlows, AmountOfFlow
<1>12. cash' = Opening + SumFunctionOnSet(AmountOfFlow', Valid') /\ cash' \in Int
  BY <1>3, <1>5, <1>8, <1>9, <1>10, <1>11
<1> QED BY <1>12 DEF CashInv, CashIsLedger, SumOfFlows, Valid, AmountOfFlow

(* An empty table sums to nothing: the cash is the opening cash.           *)
LEMMA CashInit == LedgerAssumption /\ Init => CashInv
<1> SUFFICES ASSUME LedgerAssumption, Init PROVE CashInv
  OBVIOUS
<1>1. {i \in DOMAIN flows : ~flows[i].void} = {}
  BY DEF Init
<1>2. SumOfFlows({}) = 0
  BY SumOfNone DEF SumOfFlows
<1> QED BY <1>1, <1>2 DEF Init, CashInv, CashIsLedger, LedgerAssumption

(* Every request keeps the cash at the sum of the valid flows: what it     *)
(* records it adds, and what it voids it takes back.                       *)
LEMMA CashStep == LedgerAssumption /\ Inv /\ CashInv /\ [Next]_vars => CashInv'
<1> SUFFICES ASSUME LedgerAssumption, Inv, CashInv, [Next]_vars PROVE CashInv'
  OBVIOUS
<1>0. Tables /\ Opening \in Int
  BY DEF Inv, LedgerAssumption
<1>1. ASSUME UNCHANGED <<flows, cash>> PROVE CashInv'
  BY <1>1 DEF CashInv, CashIsLedger, SumOfFlows
<1>2. ASSUME NEW s \in Stocks, NEW d \in Days, NEW p \in Prices, NEW n \in Lots,
             RecordTrade(s, d, p, n)
      PROVE  CashInv'
  <2> DEFINE t == Len(trades) + 1
             buy == Flow("BUY_FEE", -(p * n + Fee), d, s, t, NoKey)
             sell == Flow("SELL_PROCEEDS", p * n - Fee - Tax, d, s, t, NoKey)
  <2>1. p \in Nat /\ n \in Nat /\ Fee \in Nat /\ Tax \in Nat /\ t \in Nat
    BY DEF LedgerAssumption, Inv, Tables
  <2>2. -(p * n + Fee) \in Int /\ p * n - Fee - Tax \in Int
    BY <2>1
  <2>3. buy \in FlowRow /\ sell \in FlowRow
    BY <2>1, <2>2 DEF Flow, FlowRow, FlowTypes
  <2>4. /\ buy.void = FALSE /\ buy.amount = -(p * n + Fee)
        /\ sell.void = FALSE /\ sell.amount = p * n - Fee - Tax
    BY DEF Flow
  <2>5. CASE RecordBuy(s, d, p, n)
    <3>1. flows' = Append(flows, buy) /\ cash' = cash + buy.amount
      BY <2>4, <2>5 DEF RecordBuy
    <3> HIDE DEF buy, sell
    <3> QED BY <1>0, <2>3, <2>4, <3>1, AppendCash
  <2>6. CASE RecordSell(s, d, p, n)
    <3>1. flows' = Append(flows, sell) /\ cash' = cash + sell.amount
      BY <2>4, <2>6 DEF RecordSell
    <3> HIDE DEF buy, sell
    <3> QED BY <1>0, <2>3, <2>4, <3>1, AppendCash
  <2> QED BY <1>2, <2>5, <2>6 DEF RecordTrade
<1>3. ASSUME NEW a \in Amounts, NEW d \in Days, NEW k \in Keys \cup {NoKey}, Deposit(a, d, k)
      PROVE  CashInv'
  <2>1. Flow("DEPOSIT", a, d, NoStock, 0, k) \in FlowRow
    BY DEF LedgerAssumption, Flow, FlowRow, FlowTypes
  <2> QED BY <1>0, <1>3, <2>1, AppendCash DEF Deposit, Flow
<1>4. ASSUME NEW a \in Amounts, NEW d \in Days, Withdraw(a, d)
      PROVE  CashInv'
  <2>1. a \in Nat /\ -a \in Int /\ cash - a = cash + (-a)
    BY DEF LedgerAssumption, CashInv
  <2>2. Flow("WITHDRAW", -a, d, NoStock, 0, NoKey) \in FlowRow
    BY <2>1 DEF Flow, FlowRow, FlowTypes
  <2> QED BY <1>0, <1>4, <2>1, <2>2, AppendCash DEF Withdraw, Flow
<1>5. ASSUME NEW s \in Stocks, NEW a \in Dividends, NEW d \in Days,
             NEW k \in Keys \cup {NoKey}, RecordDividend(s, a, d, k)
      PROVE  CashInv'
  <2>1. Flow("DIVIDEND", a, d, s, 0, k) \in FlowRow
    BY DEF LedgerAssumption, Flow, FlowRow, FlowTypes
  <2> QED BY <1>0, <1>5, <2>1, AppendCash DEF RecordDividend, Flow
<1>6. ASSUME NEW t \in DOMAIN trades, VoidTrade(t)
      PROVE  CashInv'
  <2>1. TradeFlows(t) \in SUBSET Valid
    BY DEF TradeFlows, Valid
  <2>2. flows' = VoidFlows(TradeFlows(t)) /\ cash' = cash - SumOfFlows(TradeFlows(t))
    BY <1>6 DEF VoidTrade
  <2> QED BY <1>0, <2>1, <2>2, VoidCash
<1>7. ASSUME NEW i \in DOMAIN flows, VoidFundFlow(i)
      PROVE  CashInv'
  <2>1. {i} \in SUBSET Valid
    BY <1>7 DEF VoidFundFlow, Valid
  <2>2. AmountOfFlow[i] = flows[i].amount /\ AmountOfFlow[i] \in Int
    BY <1>0, FlowsAreFinite DEF AmountOfFlow
  <2>3. SumOfFlows({i}) = flows[i].amount
    BY <2>2, SumOfSingle DEF SumOfFlows, AmountOfFlow
  <2>4. flows' = VoidFlows({i}) /\ cash' = cash - SumOfFlows({i})
    BY <1>7, <2>3 DEF VoidFundFlow
  <2> QED BY <1>0, <2>1, <2>4, VoidCash
<1>8. CASE UNCHANGED vars
  BY <1>1, <1>8 DEF vars
<1>9. ASSUME NEW s \in Stocks, NEW c \in Closes, NEW ph \in Phases, UpdatePosition(s, c, ph)
      PROVE  CashInv'
  BY <1>1, <1>9 DEF UpdatePosition
<1>10. ASSUME NEW q \in Quotes, SyncAccount(q)
       PROVE  CashInv'
  BY <1>1, <1>10 DEF SyncAccount
<1>11. ASSUME NEW q \in Quotes, NEW others \in BOOLEAN, MarkToMarket(q, others)
       PROVE  CashInv'
  BY <1>1, <1>11 DEF MarkToMarket
<1> QED
  BY <1>2, <1>3, <1>4, <1>5, <1>6, <1>7, <1>8, <1>9, <1>10, <1>11 DEF Next

(* For any stocks, dates and amounts, and any sequence of recording and    *)
(* voiding, account.cash is the opening cash plus the flows that are not   *)
(* voided (record_trade, record_fund_flow, void_trade, void_fund_flow).    *)
THEOREM CashIsSumOfFlows == Spec => []CashIsLedger
<1>1. LedgerAssumption
  BY LedgerAssumption
<1>2. CashInv => CashIsLedger
  BY DEF CashInv
<1> QED BY <1>1, <1>2, LedgerInvariance, CashInit, CashStep, PTL DEF Spec

-----------------------------------------------------------------------------
(* Replaying.  ReplayPosition folds ReplayEvent over a set of events, the  *)
(* last one outermost.  Every finite set of events has a last one.         *)
IsEvent(e) == e.kind \in {"BUY", "DIVIDEND", "SELL"} /\ e.day \in Nat /\ e.seq \in Nat

IsEventSet(S) ==
    /\ IsFiniteSet(S) /\ \A e \in S : IsEvent(e)
    /\ \A e, f \in S : e.kind = f.kind /\ e.seq = f.seq => e = f

(* The order of replay is total on events told apart by kind and key.      *)
LEMMA PrecedesOrders ==
  ASSUME NEW e, NEW f, NEW g, IsEvent(e), IsEvent(f), IsEvent(g)
  PROVE  /\ Precedes(e, f) => ~Precedes(f, e)
         /\ Precedes(e, f) /\ Precedes(f, g) => Precedes(e, g)
         /\ ~(e.kind = f.kind /\ e.seq = f.seq) => Precedes(e, f) \/ Precedes(f, e)
<1>1. \A k \in {"BUY", "DIVIDEND", "SELL"} : KindOrder(k) \in {0, 1, 2}
  BY DEF KindOrder
<1>2. \A k, l \in {"BUY", "DIVIDEND", "SELL"} : KindOrder(k) = KindOrder(l) => k = l
  BY DEF KindOrder
<1> QED BY <1>1, <1>2 DEF Precedes, IsEvent

(* Some of the events of a stock are events of a stock.                    *)
LEMMA SmallerEventSet ==
  ASSUME NEW S, IsEventSet(S), NEW T \in SUBSET S
  PROVE  IsEventSet(T)
BY FS_Subset DEF IsEventSet

(* By induction on their number: finitely many events have a last one.     *)
LEMMA HasLastEvent ==
  ASSUME NEW S, IsEventSet(S), S # {}
  PROVE  LastEvent(S) \in S /\ \A f \in S \ {LastEvent(S)} : Precedes(f, LastEvent(S))
<1> DEFINE Last(T) == \E e \in T : \A f \in T \ {e} : Precedes(f, e)
           N == {n \in Nat : \A T \in SUBSET S : Cardinality(T) = n /\ T # {} => Last(T)}
<1>1. \A T \in SUBSET S : IsFiniteSet(T) /\ Cardinality(T) \in Nat
  BY FS_Subset, FS_CardinalityType DEF IsEventSet
<1>2. 0 \in N
  BY <1>1, FS_EmptySet
<1>3. ASSUME NEW n \in Nat, n \in N PROVE n + 1 \in N
  <2> SUFFICES ASSUME NEW T \in SUBSET S, Cardinality(T) = n + 1, T # {} PROVE Last(T)
    OBVIOUS
  <2>1. PICK u \in T : TRUE
    OBVIOUS
  <2> DEFINE V == T \ {u}
  <2>2. Cardinality(V) = n
    <3>1. Cardinality(V) = Cardinality(T) - 1
      BY <1>1, FS_RemoveElement
    <3> QED BY <3>1
  <2>3. CASE V = {}
    BY <2>3
  <2>4. CASE V # {}
    <3>1. PICK x \in V : \A f \in V \ {x} : Precedes(f, x)
      BY <2>2, <2>4, <1>3
    <3>2. x # u /\ x \in S /\ u \in S /\ \A f \in T : f \in S /\ IsEvent(f)
      BY DEF IsEventSet
    <3>3. Precedes(x, u) \/ Precedes(u, x)
      BY <3>2, PrecedesOrders DEF IsEventSet
    <3>4. CASE Precedes(x, u)
      <4>1. \A f \in T \ {u} : Precedes(f, u)
        BY <3>1, <3>2, <3>4, PrecedesOrders
      <4> QED BY <4>1
    <3>5. CASE Precedes(u, x)
      <4>1. \A f \in T \ {x} : Precedes(f, x)
        BY <3>1, <3>5
      <4> QED BY <4>1
    <3> QED BY <3>3, <3>4, <3>5
  <2> QED BY <2>3, <2>4
<1>4. Nat \subseteq N
  <2> HIDE DEF N
  <2> QED BY <1>2, <1>3, NatInductionOnSets
<1>5. Last(S)
  BY <1>1, <1>4
<1> QED BY <1>5 DEF LastEvent

(* The function the fold is defined by, on the subsets D of a set.         *)
Replays(g, D) ==
    g = [s \in D |-> IF s = {} THEN Blank ELSE ReplayEvent(g[s \ {LastEvent(s)}], LastEvent(s))]
ReplayFcn(S) == CHOOSE g : Replays(g, SUBSET S)
ReplayOf(S) == ReplayFcn(S)[S]

(* By induction on the number of events: the recursion of replay_position  *)
(* defines a function on the sets of events.                               *)
LEMMA ReplayExists ==
  ASSUME NEW S, IsEventSet(S)
  PROVE  \E g : Replays(g, SUBSET S)
<1> DEFINE Small(n) == {s \in SUBSET S : Cardinality(s) <= n}
           Has(n) == \E g : Replays(g, Small(n))
           N == {n \in Nat : Has(n)}
<1>1. \A s \in SUBSET S : IsFiniteSet(s) /\ Cardinality(s) \in Nat
  BY FS_Subset, FS_CardinalityType DEF IsEventSet
<1>2. \A s \in SUBSET S : s # {} => Cardinality(s \ {LastEvent(s)}) = Cardinality(s) - 1
  <2> SUFFICES ASSUME NEW s \in SUBSET S, s # {}
               PROVE  Cardinality(s \ {LastEvent(s)}) = Cardinality(s) - 1
    OBVIOUS
  <2>1. LastEvent(s) \in s
    BY SmallerEventSet, HasLastEvent
  <2> QED BY <1>1, <2>1, FS_RemoveElement
<1>3. 0 \in N
  <2>1. \A s \in Small(0) : s = {}
    BY <1>1, FS_EmptySet
  <2>2. Replays([s \in Small(0) |-> Blank], Small(0))
    BY <2>1 DEF Replays
  <2> QED BY <2>2
<1>4. ASSUME NEW n \in Nat, n \in N PROVE n + 1 \in N
  <2>1. PICK g : Replays(g, Small(n))
    BY <1>4
  <2> DEFINE h == [s \in Small(n + 1) |->
                     IF s = {} THEN Blank ELSE ReplayEvent(g[s \ {LastEvent(s)}], LastEvent(s))]
             D == Small(n + 1)
  <2>2. \A s \in Small(n) :
           g[s] = IF s = {} THEN Blank ELSE ReplayEvent(g[s \ {LastEvent(s)}], LastEvent(s))
    BY <2>1 DEF Replays
  <2>3. \A s \in Small(n) : s \in Small(n + 1) /\ h[s] = g[s]
    <3>1. \A s \in Small(n) : s \in Small(n + 1)
      BY <1>1
    <3>2. \A s \in Small(n + 1) :
             h[s] = IF s = {} THEN Blank ELSE ReplayEvent(g[s \ {LastEvent(s)}], LastEvent(s))
      OBVIOUS
    <3> HIDE DEF h, Small
    <3> QED BY <3>1, <3>2, <2>2, Zenon
  <2>4. \A s \in Small(n + 1) : s # {} => s \ {LastEvent(s)} \in Small(n)
    BY <1>1, <1>2
  <2>5. \A s \in Small(n + 1) :
           h[s] = IF s = {} THEN Blank ELSE ReplayEvent(h[s \ {LastEvent(s)}], LastEvent(s))
    BY <2>3, <2>4
  <2>6. h = [s \in Small(n + 1) |-> h[s]]
    OBVIOUS
  <2>7. Replays(h, D)
    <3>1. \A s \in D : h[s] = IF s = {} THEN Blank
                              ELSE ReplayEvent(h[s \ {LastEvent(s)}], LastEvent(s))
      BY <2>5
    <3>2. h = [s \in D |-> h[s]]
      BY <2>6
    <3> HIDE DEF h, D
    <3>3. [s \in D |-> h[s]] = [s \in D |-> IF s = {} THEN Blank
                                            ELSE ReplayEvent(h[s \ {LastEvent(s)}], LastEvent(s))]
      BY <3>1
    <3> QED BY <3>2, <3>3 DEF Replays
  <2>8. Has(n + 1)
    <3> HIDE DEF h
    <3> QED BY <2>7
  <2> HIDE DEF Has
  <2> QED BY <2>8
<1>5. Nat \subseteq N
  <2> HIDE DEF N
  <2> QED BY <1>3, <1>4, NatInductionOnSets
<1>6. Cardinality(S) \in Nat /\ Small(Cardinality(S)) = SUBSET S
  BY <1>1, FS_Subset DEF IsEventSet
<1> QED BY <1>5, <1>6

(* ReplayPosition is that function at the set of all events of the stock.  *)
LEMMA ReplayUnfold ==
  ASSUME NEW s, NEW tr, NEW fl
  PROVE  ReplayPosition(s, tr, fl) = ReplayOf(GatherReplayEvents(s, tr, fl))
BY DEF ReplayPosition, MapThenFoldSet, ReplayOf, ReplayFcn, Replays

(* What the function is: Blank where there is no event, and otherwise the  *)
(* last event applied to the replay of the others.                         *)
LEMMA ReplayStep ==
  ASSUME NEW S, IsEventSet(S)
  PROVE  /\ ReplayFcn(S)[{}] = Blank
         /\ \A s \in SUBSET S : s # {} =>
              /\ LastEvent(s) \in s
              /\ ReplayFcn(S)[s] = ReplayEvent(ReplayFcn(S)[s \ {LastEvent(s)}], LastEvent(s))
<1>1. Replays(ReplayFcn(S), SUBSET S)
  BY ReplayExists DEF ReplayFcn
<1>2. \A s \in SUBSET S : s # {} => LastEvent(s) \in s
  BY SmallerEventSet, HasLastEvent
<1> QED BY <1>1, <1>2 DEF Replays

(* Nothing is replayed of nothing.                                         *)
LEMMA ReplayOfNone == ReplayOf({}) = Blank
<1>1. IsEventSet({})
  BY FS_EmptySet DEF IsEventSet
<1> QED BY <1>1, ReplayStep DEF ReplayOf

(* The replay of some events does not depend on the others.                *)
LEMMA ReplaySame ==
  ASSUME NEW S, IsEventSet(S), NEW T \in SUBSET S
  PROVE  \A s \in SUBSET T : ReplayFcn(T)[s] = ReplayFcn(S)[s]
<1> DEFINE Unfolds(U) == /\ ReplayFcn(U)[{}] = Blank
                         /\ \A s \in SUBSET U : s # {} =>
                              /\ LastEvent(s) \in s
                              /\ ReplayFcn(U)[s] = ReplayEvent(ReplayFcn(U)[s \ {LastEvent(s)}], LastEvent(s))
<1>0. Unfolds(S) /\ Unfolds(T)
  <2>1. \A U : IsEventSet(U) => Unfolds(U)
    BY ReplayStep
  <2>2. IsEventSet(T)
    BY SmallerEventSet
  <2> HIDE DEF Unfolds
  <2> QED BY <2>1, <2>2
<1> DEFINE N == {n \in Nat : \A s \in SUBSET T :
                    Cardinality(s) = n => ReplayFcn(T)[s] = ReplayFcn(S)[s]}
<1>1. \A s \in SUBSET T : IsFiniteSet(s) /\ Cardinality(s) \in Nat /\ s \in SUBSET S
  BY FS_Subset, FS_CardinalityType DEF IsEventSet
<1>2. 0 \in N
  <2>1. \A s \in SUBSET T : Cardinality(s) = 0 => s = {}
    BY <1>1, FS_EmptySet
  <2> QED BY <2>1, <1>0
<1>3. ASSUME NEW n \in Nat, n \in N PROVE n + 1 \in N
  <2> SUFFICES ASSUME NEW s \in SUBSET T, Cardinality(s) = n + 1
               PROVE  ReplayFcn(T)[s] = ReplayFcn(S)[s]
    OBVIOUS
  <2>1. s # {} /\ s \in SUBSET S
    BY <1>1, FS_EmptySet
  <2>2. /\ LastEvent(s) \in s
        /\ ReplayFcn(T)[s] = ReplayEvent(ReplayFcn(T)[s \ {LastEvent(s)}], LastEvent(s))
        /\ ReplayFcn(S)[s] = ReplayEvent(ReplayFcn(S)[s \ {LastEvent(s)}], LastEvent(s))
    BY <2>1, <1>0
  <2>3. Cardinality(s \ {LastEvent(s)}) = Cardinality(s) - 1
    BY <1>1, <2>2, FS_RemoveElement
  <2>4. ReplayFcn(T)[s \ {LastEvent(s)}] = ReplayFcn(S)[s \ {LastEvent(s)}]
    BY <2>3, <1>3
  <2> QED BY <2>2, <2>4
<1>4. Nat \subseteq N
  <2> HIDE DEF N
  <2> QED BY <1>2, <1>3, NatInductionOnSets
<1> QED BY <1>1, <1>4

(* An event after all others is applied last.                              *)
LEMMA ReplayOneMore ==
  ASSUME NEW S, NEW e, IsEventSet(S \cup {e}), e \notin S, \A f \in S : Precedes(f, e)
  PROVE  ReplayOf(S \cup {e}) = ReplayEvent(ReplayOf(S), e)
<1> DEFINE T == S \cup {e}
<1>1. T # {} /\ IsEventSet(T) /\ IsEvent(e) /\ \A f \in S : IsEvent(f)
  BY DEF IsEventSet
<1>2. LastEvent(T) \in T /\ \A f \in T \ {LastEvent(T)} : Precedes(f, LastEvent(T))
  BY <1>1, HasLastEvent
<1>3. LastEvent(T) = e
  <2> SUFFICES ASSUME LastEvent(T) # e PROVE FALSE
    OBVIOUS
  <2>1. LastEvent(T) \in S /\ Precedes(e, LastEvent(T))
    BY <1>2
  <2> QED BY <1>1, <2>1, PrecedesOrders
<1>4. T \ {e} = S
  OBVIOUS
<1>5. ReplayFcn(T)[T] = ReplayEvent(ReplayFcn(T)[S], e)
  BY <1>1, <1>3, <1>4, ReplayStep
<1>6. ReplayFcn(T)[S] = ReplayFcn(S)[S]
  BY <1>1, ReplaySame
<1> QED BY <1>5, <1>6 DEF ReplayOf

-----------------------------------------------------------------------------
(* The events of a stock, from tables of the right shape.                  *)
TradeEvent(tr, t) == [kind |-> tr[t].type, day |-> tr[t].day, seq |-> t,
                      shares |-> tr[t].shares, price |-> tr[t].price]
DividendEvent(fl, i) == [kind |-> "DIVIDEND", day |-> fl[i].day, seq |-> i, amount |-> fl[i].amount]
TradesOfStock(s, tr) == {t \in DOMAIN tr : tr[t].stock = s /\ ~tr[t].void}
DividendsOfStock(s, fl) ==
    {i \in DOMAIN fl : fl[i].type = "DIVIDEND" /\ fl[i].stock = s /\ ~fl[i].void}

(* The events of a stock are those of its trades and of its dividends.     *)
LEMMA EventsAre ==
  ASSUME NEW s, NEW tr, NEW fl
  PROVE  GatherReplayEvents(s, tr, fl) =
           {TradeEvent(tr, t) : t \in TradesOfStock(s, tr)}
             \cup {DividendEvent(fl, i) : i \in DividendsOfStock(s, fl)}
BY DEF GatherReplayEvents, TradeEvent, DividendEvent, TradesOfStock, DividendsOfStock

(* They are finitely many and told apart by kind and key.                  *)
LEMMA EventsAreOrdered ==
  ASSUME LedgerAssumption, NEW s, NEW tr \in Seq(Trade), NEW fl \in Seq(FlowRow)
  PROVE  IsEventSet(GatherReplayEvents(s, tr, fl))
<1> DEFINE T == TradesOfStock(s, tr)
           D == DividendsOfStock(s, fl)
           TE == {TradeEvent(tr, t) : t \in T}
           DE == {DividendEvent(fl, i) : i \in D}
<1>1. DOMAIN tr = 1..Len(tr) /\ DOMAIN fl = 1..Len(fl) /\ Len(tr) \in Nat /\ Len(fl) \in Nat
  OBVIOUS
<1>2. IsFiniteSet(T) /\ IsFiniteSet(D) /\ T \subseteq Nat /\ D \subseteq Nat
  <2>1. IsFiniteSet(1..Len(tr)) /\ IsFiniteSet(1..Len(fl))
    BY <1>1, FS_Interval
  <2>2. T \in SUBSET (1..Len(tr)) /\ D \in SUBSET (1..Len(fl))
    BY <1>1 DEF TradesOfStock, DividendsOfStock
  <2> HIDE DEF T, D
  <2>3. IsFiniteSet(T)
    BY <2>1, <2>2, FS_Subset
  <2>4. IsFiniteSet(D)
    BY <2>1, <2>2, FS_Subset
  <2> QED BY <1>1, <2>2, <2>3, <2>4
<1>3. IsFiniteSet(TE) /\ IsFiniteSet(DE)
  <2> DEFINE f == [t \in T |-> TradeEvent(tr, t)]
             g == [i \in D |-> DividendEvent(fl, i)]
  <2>1. IsFiniteSet({f[t] : t \in T}) /\ IsFiniteSet({g[i] : i \in D})
    <3> HIDE DEF T, D, f, g
    <3> QED BY <1>2, ImageIsFinite
  <2>2. TE = {f[t] : t \in T} /\ DE = {g[i] : i \in D}
    OBVIOUS
  <2> HIDE DEF TE, DE, f, g
  <2> QED BY <2>1, <2>2
<1>4. \A t \in T : tr[t].type \in {"BUY", "SELL"} /\ tr[t].day \in Nat /\ t \in Nat
  <2>1. \A t \in T : tr[t] \in Trade
    BY <1>1 DEF TradesOfStock
  <2> QED BY <1>2, <2>1 DEF Trade, LedgerAssumption
<1>5. \A i \in D : fl[i].day \in Nat /\ i \in Nat
  <2>1. \A i \in D : fl[i] \in FlowRow
    BY <1>1 DEF DividendsOfStock
  <2> QED BY <1>2, <2>1 DEF FlowRow, LedgerAssumption
<1>6. /\ \A t \in T : /\ TradeEvent(tr, t).kind = tr[t].type /\ TradeEvent(tr, t).day = tr[t].day
                      /\ TradeEvent(tr, t).seq = t
      /\ \A i \in D : /\ DividendEvent(fl, i).kind = "DIVIDEND"
                      /\ DividendEvent(fl, i).day = fl[i].day /\ DividendEvent(fl, i).seq = i
  BY DEF TradeEvent, DividendEvent
<1> HIDE DEF T, D
<1>7. \A e \in TE \cup DE : IsEvent(e)
  BY <1>4, <1>5, <1>6 DEF IsEvent
<1>8. \A e, f \in TE \cup DE : e.kind = f.kind /\ e.seq = f.seq => e = f
  <2> SUFFICES ASSUME NEW e \in TE \cup DE, NEW f \in TE \cup DE, e.kind = f.kind, e.seq = f.seq
               PROVE  e = f
    OBVIOUS
  <2>1. CASE e \in TE /\ f \in TE
    BY <2>1, <1>6
  <2>2. CASE e \in DE /\ f \in DE
    BY <2>2, <1>6
  <2>3. CASE e \in TE /\ f \in DE
    BY <2>3, <1>4, <1>6
  <2>4. CASE e \in DE /\ f \in TE
    BY <2>4, <1>4, <1>6
  <2> QED BY <2>1, <2>2, <2>3, <2>4
<1>9. IsFiniteSet(TE \cup DE)
  BY <1>3, FS_Union
<1>10. GatherReplayEvents(s, tr, fl) = TE \cup DE
  BY EventsAre DEF T, D
<1> HIDE DEF TE, DE
<1> QED BY <1>7, <1>8, <1>9, <1>10 DEF IsEventSet

(* Costs: fractions in a replay, whole numbers in the rows.                *)
Fraction == [num : Int, den : Nat \ {0}]

(* What the remainder of a division is bounded by.                         *)
LEMMA Quotient ==
  ASSUME NEW a \in Int, NEW b \in Nat \ {0}
  PROVE  a \div b \in Int /\ b * (a \div b) <= a /\ a < b * (a \div b) + b
OBVIOUS

(* Both sides of a bound times the same number.                            *)
LEMMA BoundTimes ==
  ASSUME NEW a \in Nat, NEW b \in Nat, NEW u \in Int, -b <= u, u <= b
  PROVE  a * u \in Int /\ a * b \in Nat /\ -(a * b) <= a * u /\ a * u <= a * b
<1>1. b - u \in Nat /\ b + u \in Nat
  OBVIOUS
<1>2. a * (b - u) \in Nat /\ a * (b + u) \in Nat
  BY <1>1
<1>3. a * (b - u) = a * b - a * u /\ a * (b + u) = a * b + a * u
  OBVIOUS
<1> QED BY <1>2, <1>3

(* Close says that twice the difference, times the denominator, is between *)
(* two bounds.                                                             *)
LEMMA CloseIs ==
  ASSUME NEW c \in Int, NEW x \in Fraction, NEW k \in Nat
  PROVE  /\ c * x.den \in Int /\ k * x.den \in Nat /\ x.num \in Int /\ x.den \in Nat \ {0}
         /\ Close(c, x, k) <=> /\ -(k * x.den) <= 2 * (c * x.den - x.num)
                               /\ 2 * (c * x.den - x.num) <= k * x.den
<1>1. x.num \in Int /\ x.den \in Nat \ {0}
  BY DEF Fraction
<1> DEFINE m == c * x.den
           b == k * x.den
<1>2. m \in Int /\ b \in Nat
  BY <1>1
<1>3. Close(c, x, k) <=> 2 * (m - x.num) \in -b .. b
  BY DEF Close
<1> HIDE DEF m, b
<1>4. Close(c, x, k) <=> -b <= 2 * (m - x.num) /\ 2 * (m - x.num) <= b
  BY <1>1, <1>2, <1>3
<1> QED BY <1>1, <1>2, <1>4 DEF m, b

(* Rounding to the column's last decimal errs by at most half of it.       *)
LEMMA StoredIsClose ==
  ASSUME NEW x \in Fraction
  PROVE  Stored(x) \in Int /\ Close(Stored(x), x, 1)
<1> DEFINE n == x.num
           d == x.den
           s == Stored(x)
<1>1. n \in Int /\ d \in Nat \ {0} /\ 2 * d \in Nat \ {0}
  BY DEF Fraction
<1>2. s \in Int /\ -d <= 2 * (s * d) - 2 * n /\ 2 * (s * d) - 2 * n <= d
  <2>1. CASE n >= 0
    <3> DEFINE q == (2 * n + d) \div (2 * d)
    <3>1. s = q
      BY <2>1 DEF Stored
    <3>2. q \in Int /\ (2 * d) * q <= 2 * n + d /\ 2 * n + d < (2 * d) * q + 2 * d
      <4>1. 2 * n + d \in Int
        BY <1>1
      <4> QED BY <1>1, <4>1, Quotient
    <3> HIDE DEF q, n, d, s
    <3>3. (2 * d) * q = 2 * (q * d) /\ q * d \in Int
      BY <1>1, <3>2
    <3> QED BY <1>1, <3>1, <3>2, <3>3
  <2>2. CASE ~(n >= 0)
    <3> DEFINE q == (d - 2 * n) \div (2 * d)
    <3>1. s = -q
      BY <2>2 DEF Stored
    <3>2. q \in Int /\ (2 * d) * q <= d - 2 * n /\ d - 2 * n < (2 * d) * q + 2 * d
      <4>1. d - 2 * n \in Int
        BY <1>1
      <4> QED BY <1>1, <4>1, Quotient
    <3> HIDE DEF q, n, d, s
    <3>3. (2 * d) * q = 2 * (q * d) /\ (-q) * d = -(q * d) /\ q * d \in Int
      BY <1>1, <3>2
    <3> QED BY <1>1, <3>1, <3>2, <3>3
  <2> QED BY <2>1, <2>2
<1> HIDE DEF s
<1>3. Close(s, x, 1) <=> -(1 * d) <= 2 * (s * d - n) /\ 2 * (s * d - n) <= 1 * d
  BY <1>2, CloseIs
<1>4. s * d \in Int /\ 1 * d = d
  BY <1>1, <1>2
<1> HIDE DEF n, d
<1>5. 2 * (s * d - n) = 2 * (s * d) - 2 * n
  BY <1>1, <1>4
<1> QED BY <1>2, <1>3, <1>4, <1>5 DEF s

(* A whole number is stored as it is.                                      *)
LEMMA ExactlyIs ==
  ASSUME NEW c \in Int
  PROVE  Exactly(c) \in Fraction /\ Exactly(c).num = c /\ Exactly(c).den = 1
BY DEF Exactly, Fraction

(* What is near stays near when more is allowed.                           *)
LEMMA CloseLater ==
  ASSUME NEW c \in Int, NEW x \in Fraction, NEW k \in Nat, NEW l \in Nat, k <= l, Close(c, x, k)
  PROVE  Close(c, x, l)
<1> DEFINE d == x.den
           u == 2 * (c * x.den - x.num)
<1>1. d \in Nat /\ k * d \in Nat /\ l * d \in Nat /\ u \in Int /\ -(k * d) <= u /\ u <= k * d
  BY CloseIs
<1>2. l * d = k * d + (l - k) * d /\ (l - k) * d \in Nat
  <2> HIDE DEF d
  <2>1. l - k \in Nat
    OBVIOUS
  <2> QED BY <1>1, <2>1
<1> HIDE DEF d, u
<1>3. -(l * d) <= u /\ u <= l * d
  BY <1>1, <1>2
<1> QED BY <1>3, CloseIs DEF d, u

(* The average cost and the lowered cost are fractions.                    *)
LEMMA WacIsFraction ==
  ASSUME LedgerAssumption, NEW h \in Nat, NEW x \in Fraction, NEW n \in Nat \ {0}, NEW p \in Nat
  PROVE  ComputeWac(h, x, n, p, Fee) \in Fraction
<1> DEFINE a == (n * p + Fee) * Scale
<1>1. x.num \in Int /\ x.den \in Nat \ {0} /\ Fee \in Nat /\ Scale \in Nat
  BY DEF LedgerAssumption, Fraction
<1>2. a \in Int
  <2>1. n * p \in Int
    OBVIOUS
  <2> QED BY <1>1, <2>1
<1>3. ComputeWac(h, x, n, p, Fee) = [num |-> h * x.num + a * x.den, den |-> (h + n) * x.den]
  BY DEF ComputeWac
<1> HIDE DEF a
<1>4. h * x.num \in Int /\ a * x.den \in Int /\ h + n \in Nat \ {0}
  BY <1>1, <1>2
<1>5. (h + n) * x.den \in Nat \ {0}
  BY <1>1, <1>4
<1> QED BY <1>3, <1>4, <1>5 DEF Fraction

LEMMA LessIsFraction ==
  ASSUME LedgerAssumption, NEW h \in Nat \ {0}, NEW x \in Fraction, NEW m \in Int
  PROVE  LessDividend(h, x, m) \in Fraction
<1> DEFINE a == m * Scale
<1>1. x.num \in Int /\ x.den \in Nat \ {0} /\ Scale \in Nat
  BY DEF LedgerAssumption, Fraction
<1>2. a \in Int
  BY <1>1
<1>3. LessDividend(h, x, m) = [num |-> h * x.num - a * x.den, den |-> h * x.den]
  BY DEF LessDividend
<1> HIDE DEF a
<1>4. h * x.num \in Int /\ a * x.den \in Int /\ h * x.den \in Nat \ {0}
  BY <1>1, <1>2
<1> QED BY <1>3, <1>4 DEF Fraction

(* A cost within k halves of c is moved by one step of a replay, and c by  *)
(* the same step and a rounding: they are within k + 1 halves.  Of m       *)
(* shares h were there before, and a was added to their cost.              *)
LEMMA CloseStep ==
  ASSUME NEW h \in Nat, NEW m \in Nat \ {0}, h <= m, NEW a \in Int, NEW c \in Int,
         NEW x \in Fraction, NEW k \in Nat, Close(c, x, k), NEW y, NEW z,
         y = [num |-> h * c + a, den |-> m],
         z = [num |-> h * x.num + a * x.den, den |-> m * x.den]
  PROVE  Close(Stored(y), z, k + 1)
<1> DEFINE d == x.den
           n == x.num
           t == Stored(y)
           u == 2 * (t * m - (h * c + a))
           v == 2 * (c * d - n)
<1>1. d \in Nat \ {0} /\ n \in Int /\ h * c \in Int
  BY DEF Fraction
<1>2. y \in Fraction /\ y.num = h * c + a /\ y.den = m
  BY <1>1 DEF Fraction
<1>3. t \in Int /\ u \in Int /\ -m <= u /\ u <= m
  <2>1. t \in Int /\ Close(t, y, 1)
    BY <1>2, StoredIsClose
  <2>2. t * m \in Int /\ 1 * m = m
    BY <2>1
  <2> HIDE DEF t
  <2>3. -(1 * m) <= u /\ u <= 1 * m
    BY <1>2, <2>1, CloseIs
  <2> QED BY <1>1, <2>1, <2>2, <2>3
<1>4. v \in Int /\ k * d \in Nat /\ -(k * d) <= v /\ v <= k * d
  BY CloseIs
<1>5. z \in Fraction /\ z.num = h * n + a * d /\ z.den = m * d
  <2>1. h * n \in Int /\ a * d \in Int /\ m * d \in Nat \ {0}
    BY <1>1
  <2> QED BY <2>1 DEF Fraction
<1> HIDE DEF d, n, t
<1>6. 2 * (t * (m * d) - (h * n + a * d)) = d * u + h * v
  <2>1. d * u = 2 * (t * (m * d)) - 2 * (h * (c * d)) - 2 * (a * d)
    BY <1>1, <1>3
  <2>2. h * v = 2 * (h * (c * d)) - 2 * (h * n)
    BY <1>1
  <2>3. t * (m * d) \in Int /\ h * (c * d) \in Int /\ a * d \in Int /\ h * n \in Int
    BY <1>1, <1>3
  <2> QED BY <2>1, <2>2, <2>3
<1> HIDE DEF u, v
<1>7. d * u \in Int /\ -(d * m) <= d * u /\ d * u <= d * m /\ d * m \in Nat
  BY <1>1, <1>3, BoundTimes
<1>8. h * v \in Int /\ -(h * (k * d)) <= h * v /\ h * v <= h * (k * d) /\ h * (k * d) \in Nat
  <2> DEFINE b == k * d
  <2> HIDE DEF b
  <2> QED BY <1>4, BoundTimes DEF b
<1>9. h * (k * d) <= m * (k * d) /\ m * (k * d) \in Nat
  <2> DEFINE b == k * d
  <2>1. b \in Nat /\ m - h \in Nat
    BY <1>4
  <2> HIDE DEF b
  <2>2. (m - h) * b \in Nat /\ (m - h) * b = m * b - h * b /\ m * b \in Nat /\ h * b \in Nat
    BY <2>1
  <2>3. h * b <= m * b
    BY <2>2
  <2> QED BY <2>2, <2>3 DEF b
<1>10. (k + 1) * (m * d) = m * (k * d) + d * m
  BY <1>1
<1> DEFINE w == 2 * (t * (m * d) - (h * n + a * d))
           b == (k + 1) * (m * d)
<1>11. -b <= w /\ w <= b
  <2>1. b \in Int /\ w = d * u + h * v /\ b = m * (k * d) + d * m
    BY <1>1, <1>6, <1>10
  <2> HIDE DEF b, w
  <2> QED BY <1>7, <1>8, <1>9, <2>1
<1>12. Close(t, z, k + 1) <=> -b <= w /\ w <= b
  <2>1. k + 1 \in Nat
    OBVIOUS
  <2>2. Close(t, z, k + 1) <=> /\ -((k + 1) * z.den) <= 2 * (t * z.den - z.num)
                               /\ 2 * (t * z.den - z.num) <= (k + 1) * z.den
    BY <1>3, <1>5, <2>1, CloseIs
  <2> QED BY <1>5, <2>2
<1> QED BY <1>11, <1>12 DEF t

(* The two steps that change the cost of a position.                       *)
LEMMA CloseWac ==
  ASSUME LedgerAssumption, NEW h \in Nat, NEW c \in Int, NEW x \in Fraction, NEW k \in Nat,
         Close(c, x, k), NEW n \in Nat \ {0}, NEW p \in Nat
  PROVE  Close(Stored(ComputeWac(h, Exactly(c), n, p, Fee)), ComputeWac(h, x, n, p, Fee), k + 1)
<1> DEFINE a == (n * p + Fee) * Scale
<1>1. a \in Int
  <2>1. n * p \in Int /\ Fee \in Nat /\ Scale \in Nat
    BY DEF LedgerAssumption
  <2> QED BY <2>1
<1>2. /\ ComputeWac(h, Exactly(c), n, p, Fee) = [num |-> h * c + a * 1, den |-> (h + n) * 1]
      /\ ComputeWac(h, x, n, p, Fee) = [num |-> h * x.num + a * x.den, den |-> (h + n) * x.den]
  BY DEF ComputeWac, Exactly
<1> HIDE DEF a
<1>3. a * 1 = a /\ (h + n) * 1 = h + n /\ h + n \in Nat \ {0} /\ h <= h + n
  BY <1>1
<1> QED BY <1>1, <1>2, <1>3, CloseStep

LEMMA CloseLess ==
  ASSUME LedgerAssumption, NEW h \in Nat \ {0}, NEW c \in Int, NEW x \in Fraction, NEW k \in Nat,
         Close(c, x, k), NEW m \in Int
  PROVE  Close(Stored(LessDividend(h, Exactly(c), m)), LessDividend(h, x, m), k + 1)
<1> DEFINE b == m * Scale
           a == -b
<1>1. b \in Int /\ a \in Int
  BY DEF LedgerAssumption
<1>2. /\ LessDividend(h, Exactly(c), m) = [num |-> h * c - b * 1, den |-> h * 1]
      /\ LessDividend(h, x, m) = [num |-> h * x.num - b * x.den, den |-> h * x.den]
  BY DEF LessDividend, Exactly
<1>3. x.num \in Int /\ x.den \in Nat
  BY DEF Fraction
<1> HIDE DEF b
<1>4. h * c - b * 1 = h * c + a /\ h * 1 = h /\ h * x.num - b * x.den = h * x.num + a * x.den
  <2>1. a * x.den = -(b * x.den) /\ b * x.den \in Int /\ h * x.num \in Int /\ h * c \in Int
    BY <1>1, <1>3
  <2> QED BY <1>1, <2>1
<1> HIDE DEF a
<1>5. h <= h /\ h \in Nat
  OBVIOUS
<1> QED BY <1>1, <1>2, <1>4, <1>5, CloseStep

(* What is not held costs nothing.                                         *)
LEMMA NothingIsClose ==
  ASSUME NEW k \in Nat
  PROVE  Close(0, Exactly(0), k)
<1>1. Exactly(0) \in Fraction /\ Exactly(0).num = 0 /\ Exactly(0).den = 1
  BY ExactlyIs
<1>2. k * 1 = k /\ 0 * 1 = 0
  OBVIOUS
<1> QED BY <1>1, <1>2, CloseIs

-----------------------------------------------------------------------------
(* What a replay can come to.                                              *)
Replayed == [ok : BOOLEAN, shares : Nat, cost : Fraction, open : Days \cup {0}, phase : Phases]
IsPosition(p) == /\ p \in Replayed
                 /\ p.shares > 0 <=> p.open # 0
                 /\ p.shares = 0 => p.cost = Exactly(0) /\ p.phase = "NONE"

IsPlayable(e) ==
    \/ /\ e.kind \in {"BUY", "SELL"} /\ e.day \in Days /\ e.shares \in Nat \ {0} /\ e.price \in Nat
    \/ e.kind = "DIVIDEND" /\ e.amount \in Int

(* An event makes a position of a position, and changes its shares by      *)
(* those of the event when it is not refused.                              *)
LEMMA EventKeepsShape ==
  ASSUME LedgerAssumption, NEW p, IsPosition(p), NEW e, IsPlayable(e)
  PROVE  /\ IsPosition(ReplayEvent(p, e))
         /\ ReplayEvent(p, e).ok => /\ p.ok
                                    /\ e.kind = "BUY" => ReplayEvent(p, e).shares = p.shares + e.shares
                                    /\ e.kind = "SELL" => ReplayEvent(p, e).shares = p.shares - e.shares
                                    /\ e.kind = "DIVIDEND" => ReplayEvent(p, e).shares = p.shares
<1> DEFINE q == ReplayEvent(p, e)
<1>0. p \in Replayed /\ Days \subseteq Nat \ {0} /\ Scale \in Nat
  BY DEF IsPosition, LedgerAssumption
<1>1. CASE ~p.ok
  <2>1. q = p
    BY <1>1 DEF ReplayEvent
  <2> QED BY <1>1, <2>1
<1>2. CASE p.ok /\ e.kind = "BUY"
  <2>1. /\ e.day \in Days /\ e.shares \in Nat \ {0} /\ e.price \in Nat
        /\ p.shares \in Nat /\ p.cost \in Fraction
    BY <1>0, <1>2 DEF IsPlayable, Replayed
  <2> DEFINE c == ComputeWac(p.shares, p.cost, e.shares, e.price, Fee)
  <2>2. c \in Fraction
    BY <2>1, WacIsFraction
  <2>3. q = [p EXCEPT !.shares = p.shares + e.shares, !.cost = c,
                      !.open = IF p.open = 0 THEN e.day ELSE p.open, !.phase = "BUILD"]
    BY <1>2, <1>0 DEF ReplayEvent, Replayed
  <2> DEFINE o == IF p.open = 0 THEN e.day ELSE p.open
             n == p.shares + e.shares
  <2>7. n \in Nat /\ o \in Days \cup {0}
    BY <1>0, <2>1 DEF Replayed
  <2> HIDE DEF c, q, o, n
  <2>8. q = [ok |-> TRUE, shares |-> n, cost |-> c, open |-> o, phase |-> "BUILD"]
    BY <1>0, <1>2, <2>3 DEF Replayed, o, n
  <2>9. q \in Replayed
    BY <2>2, <2>7, <2>8 DEF Replayed, Phases
  <2>4. /\ q.ok = TRUE /\ q.shares = p.shares + e.shares /\ q.cost = c
        /\ q.open = (IF p.open = 0 THEN e.day ELSE p.open) /\ q.phase = "BUILD"
        /\ q \in Replayed
    BY <2>8, <2>9 DEF o, n
  <2>5. q.shares > 0 /\ q.open # 0 /\ q.shares # 0
    BY <1>0, <2>1, <2>4
  <2>6. IsPosition(q)
    BY <2>4, <2>5 DEF IsPosition
  <2> QED BY <1>2, <2>4, <2>6 DEF q
<1>3. CASE p.ok /\ e.kind = "SELL"
  <2>1. e.shares \in Nat \ {0} /\ p.shares \in Nat
    BY <1>0, <1>3 DEF IsPlayable, Replayed
  <2>2. CASE e.shares > p.shares
    <3>1. q = [p EXCEPT !.ok = FALSE]
      BY <1>3, <2>1, <2>2 DEF ReplayEvent
    <3> HIDE DEF q
    <3>2. IsPosition(q) /\ ~q.ok
      BY <3>1, <1>0 DEF IsPosition, Replayed
    <3> QED BY <3>2 DEF q
  <2>3. CASE e.shares = p.shares
    <3>1. q = Blank
      BY <1>3, <2>1, <2>3 DEF ReplayEvent
    <3> QED BY <1>3, <2>1, <2>3, <3>1, ExactlyIs DEF IsPosition, Replayed, Blank, Phases
  <2>4. CASE e.shares < p.shares
    <3>1. q = [p EXCEPT !.shares = p.shares - e.shares, !.phase = "REDUCE"]
      BY <1>3, <2>1, <2>4 DEF ReplayEvent
    <3> DEFINE n == p.shares - e.shares
    <3>0. n \in Nat
      BY <2>1, <2>4
    <3> HIDE DEF q, n
    <3>5. q = [ok |-> p.ok, shares |-> n, cost |-> p.cost, open |-> p.open, phase |-> "REDUCE"]
      BY <1>0, <3>1 DEF Replayed, n
    <3>2. /\ q \in Replayed /\ q.shares = p.shares - e.shares /\ q.open = p.open
          /\ q.ok = p.ok
      BY <1>0, <3>0, <3>5 DEF Replayed, Phases, n
    <3>3. q.shares > 0 /\ q.open # 0 /\ q.shares # 0
      BY <3>2, <2>1, <2>4 DEF IsPosition
    <3>4. IsPosition(q)
      BY <3>2, <3>3 DEF IsPosition
    <3> QED BY <1>3, <3>2, <3>4 DEF q
  <2> QED BY <2>1, <2>2, <2>3, <2>4
<1>4. CASE p.ok /\ e.kind = "DIVIDEND"
  <2>1. e.amount \in Int /\ p.shares \in Nat /\ p.cost \in Fraction
    BY <1>0, <1>4 DEF IsPlayable, Replayed
  <2>2. CASE p.shares > 0
    <3> DEFINE c == LessDividend(p.shares, p.cost, e.amount)
    <3>1. c \in Fraction
      <4>1. p.shares \in Nat \ {0}
        BY <2>1, <2>2
      <4> QED BY <2>1, <4>1, LessIsFraction
    <3>2. q = [p EXCEPT !.cost = c]
      BY <1>4, <2>2 DEF ReplayEvent
    <3> HIDE DEF q, c
    <3>3. q \in Replayed /\ q.shares = p.shares /\ q.open = p.open /\ q.ok = p.ok
      BY <1>0, <2>1, <3>1, <3>2 DEF Replayed
    <3>4. IsPosition(q)
      BY <3>3, <2>1, <2>2 DEF IsPosition
    <3> QED BY <1>4, <3>3, <3>4 DEF q
  <2>3. CASE ~(p.shares > 0)
    <3>1. q = p
      BY <1>4, <2>3 DEF ReplayEvent
    <3> QED BY <1>4, <3>1
  <2> QED BY <2>2, <2>3
<1>5. e.kind \in {"BUY", "SELL", "DIVIDEND"} /\ p.ok \in BOOLEAN
  BY <1>0 DEF IsPlayable, Replayed
<1> QED BY <1>1, <1>2, <1>3, <1>4, <1>5

-----------------------------------------------------------------------------
(* The shares bought and sold, as sums over the table of trades.           *)
OfKind(s, tr, type) == {t \in DOMAIN tr : tr[t].stock = s /\ ~tr[t].void /\ tr[t].type = type}
SharesOfTrade(tr) == [t \in DOMAIN tr |-> tr[t].shares]
SharesOf(tr, T) == SumFunctionOnSet(SharesOfTrade(tr), T)
Net(s, tr) == SharesOf(tr, OfKind(s, tr, "BUY")) - SharesOf(tr, OfKind(s, tr, "SELL"))

(* The table of trades is finite, and its columns have their types.        *)
LEMMA TradeTable ==
  ASSUME LedgerAssumption, NEW tr \in Seq(Trade)
  PROVE  /\ IsFiniteSet(DOMAIN tr) /\ DOMAIN tr \subseteq Nat
         /\ \A t \in DOMAIN tr :
              /\ tr[t] \in Trade /\ tr[t].shares \in Nat \ {0} /\ tr[t].price \in Nat
              /\ tr[t].day \in Days /\ tr[t].type \in {"BUY", "SELL"}
              /\ SharesOfTrade(tr)[t] \in Int
<1>1. DOMAIN tr = 1..Len(tr) /\ Len(tr) \in Nat
  OBVIOUS
<1>2. IsFiniteSet(1..Len(tr))
  BY <1>1, FS_Interval
<1>3. \A t \in DOMAIN tr : tr[t] \in Trade
  OBVIOUS
<1>4. \A x \in Trade : /\ x.shares \in Nat \ {0} /\ x.price \in Nat
                       /\ x.day \in Days /\ x.type \in {"BUY", "SELL"}
  BY DEF Trade, LedgerAssumption
<1>5. \A t \in DOMAIN tr : SharesOfTrade(tr)[t] = tr[t].shares
  BY DEF SharesOfTrade
<1> QED BY <1>1, <1>2, <1>3, <1>4, <1>5

(* Some of the trades have a sum of shares.                                *)
LEMMA SharesOfSome ==
  ASSUME LedgerAssumption, NEW tr \in Seq(Trade), NEW T \in SUBSET DOMAIN tr
  PROVE  /\ IsFiniteSet(T) /\ SharesOf(tr, T) \in Int
         /\ \A t \in T : SharesOfTrade(tr)[t] \in Int
<1>1. IsFiniteSet(T) /\ \A t \in T : SharesOfTrade(tr)[t] \in Int
  BY TradeTable, FS_Subset
<1>2. SumFunctionOnSet(SharesOfTrade(tr), T) \in Int
  BY <1>1, SumOfInts
<1> QED BY <1>1, <1>2 DEF SharesOf

(* One trade more adds its shares.                                         *)
LEMMA SharesOfOneMore ==
  ASSUME LedgerAssumption, NEW tr \in Seq(Trade), NEW T \in SUBSET DOMAIN tr,
         NEW t \in DOMAIN tr, t \notin T
  PROVE  SharesOf(tr, T \cup {t}) = SharesOf(tr, T) + tr[t].shares
<1>1. IsFiniteSet(T) /\ \A u \in T \cup {t} : SharesOfTrade(tr)[u] \in Int
  BY SharesOfSome, TradeTable
<1>2. SharesOfTrade(tr)[t] = tr[t].shares
  BY DEF SharesOfTrade
<1> QED BY <1>1, <1>2, SumOfOneMore DEF SharesOf

(* A sum does not change with rows it is not about.                        *)
LEMMA SharesOfSame ==
  ASSUME LedgerAssumption, NEW tr \in Seq(Trade), NEW ts, NEW T \in SUBSET DOMAIN tr,
         \A t \in T : t \in DOMAIN ts /\ ts[t].shares = tr[t].shares
  PROVE  SharesOf(ts, T) = SharesOf(tr, T)
<1>1. IsFiniteSet(T)
  BY SharesOfSome
<1>2. \A t \in T : SharesOfTrade(tr)[t] = SharesOfTrade(ts)[t]
  BY DEF SharesOfTrade
<1> QED BY <1>1, <1>2, SumOfEquals DEF SharesOf

(* A trade appended changes the net shares of its stock by its own.        *)
LEMMA NetAppend ==
  ASSUME LedgerAssumption, NEW tr \in Seq(Trade), NEW x \in Trade, x.void = FALSE
  PROVE  /\ \A s : s # x.stock => Net(s, Append(tr, x)) = Net(s, tr)
         /\ x.type = "BUY" => Net(x.stock, Append(tr, x)) = Net(x.stock, tr) + x.shares
         /\ x.type = "SELL" => Net(x.stock, Append(tr, x)) = Net(x.stock, tr) - x.shares
<1> DEFINE t == Len(tr) + 1
           ts == Append(tr, x)
<1>1. /\ ts \in Seq(Trade) /\ DOMAIN ts = DOMAIN tr \cup {t} /\ t \notin DOMAIN tr
      /\ ts[t] = x /\ \A u \in DOMAIN tr : ts[u] = tr[u]
  OBVIOUS
<1> HIDE DEF t, ts
<1>2. \A s, k : OfKind(s, tr, k) \in SUBSET DOMAIN tr
  BY DEF OfKind
<1>3. \A s, k : SharesOf(ts, OfKind(s, tr, k)) = SharesOf(tr, OfKind(s, tr, k))
  BY <1>1, <1>2, SharesOfSame
<1>4. \A s, k : ~(x.stock = s /\ x.type = k) => OfKind(s, ts, k) = OfKind(s, tr, k)
  BY <1>1 DEF OfKind
<1>5. /\ OfKind(x.stock, ts, x.type) = OfKind(x.stock, tr, x.type) \cup {t}
      /\ t \notin OfKind(x.stock, tr, x.type)
  BY <1>1 DEF OfKind
<1>6. SharesOf(ts, OfKind(x.stock, ts, x.type)) = SharesOf(tr, OfKind(x.stock, tr, x.type)) + x.shares
  <2>1. OfKind(x.stock, tr, x.type) \in SUBSET DOMAIN ts
    BY <1>1, <1>2
  <2>2. SharesOf(ts, OfKind(x.stock, tr, x.type) \cup {t})
          = SharesOf(ts, OfKind(x.stock, tr, x.type)) + ts[t].shares
    BY <1>1, <1>5, <2>1, SharesOfOneMore
  <2> QED BY <1>1, <1>3, <1>5, <2>2
<1>7. \A s, k : SharesOf(tr, OfKind(s, tr, k)) \in Int
  BY <1>2, SharesOfSome
<1>8. x.shares \in Int /\ x.type \in {"BUY", "SELL"}
  <2>1. x.shares \in Lots /\ x.type \in {"BUY", "SELL"}
    BY DEF Trade
  <2>2. \A n \in Lots : n \in Int
    BY DEF LedgerAssumption
  <2> QED BY <2>1, <2>2
<1>9. ASSUME NEW s, s # x.stock PROVE Net(s, ts) = Net(s, tr)
  BY <1>3, <1>4, <1>9 DEF Net
<1>10. CASE x.type = "BUY"
  <2>1. SharesOf(ts, OfKind(x.stock, ts, "SELL")) = SharesOf(tr, OfKind(x.stock, tr, "SELL"))
    BY <1>3, <1>4, <1>10
  <2> DEFINE b == SharesOf(tr, OfKind(x.stock, tr, "BUY"))
             c == SharesOf(tr, OfKind(x.stock, tr, "SELL"))
  <2>2. b \in Int /\ c \in Int
    BY <1>7
  <2>3. Net(x.stock, ts) = (b + x.shares) - c /\ Net(x.stock, tr) = b - c
    BY <1>6, <1>10, <2>1 DEF Net
  <2> HIDE DEF b, c
  <2> QED BY <1>8, <1>9, <1>10, <2>2, <2>3 DEF ts
<1>11. CASE x.type = "SELL"
  <2>1. SharesOf(ts, OfKind(x.stock, ts, "BUY")) = SharesOf(tr, OfKind(x.stock, tr, "BUY"))
    BY <1>3, <1>4, <1>11
  <2> DEFINE b == SharesOf(tr, OfKind(x.stock, tr, "BUY"))
             c == SharesOf(tr, OfKind(x.stock, tr, "SELL"))
  <2>2. b \in Int /\ c \in Int
    BY <1>7
  <2>3. Net(x.stock, ts) = b - (c + x.shares) /\ Net(x.stock, tr) = b - c
    BY <1>6, <1>11, <2>1 DEF Net
  <2> HIDE DEF b, c
  <2> QED BY <1>8, <1>9, <1>11, <2>2, <2>3 DEF ts
<1> QED BY <1>8, <1>10, <1>11

(* A trade voided does not change the net shares of another stock.         *)
LEMMA NetVoid ==
  ASSUME LedgerAssumption, Tables, DOMAIN trades' = DOMAIN trades,
         NEW t \in DOMAIN trades, NEW s, s # trades[t].stock,
         \A u \in DOMAIN trades :
             /\ trades'[u].stock = trades[u].stock /\ trades'[u].type = trades[u].type
             /\ trades'[u].shares = trades[u].shares,
         \A u \in DOMAIN trades : trades'[u].void <=> u = t \/ trades[u].void
  PROVE  Net(s, trades') = Net(s, trades)
<1>1. \A k : OfKind(s, trades', k) = OfKind(s, trades, k) /\ OfKind(s, trades, k) \in SUBSET DOMAIN trades
  BY DEF OfKind, Tables
<1>2. \A k : SharesOf(trades', OfKind(s, trades, k)) = SharesOf(trades, OfKind(s, trades, k))
  BY <1>1, SharesOfSame DEF Tables
<1> QED BY <1>1, <1>2 DEF Net

(* What a replay that is not refused comes to: a position whose shares are *)
(* those bought less those sold.                                           *)
LEMMA ReplayShares ==
  ASSUME LedgerAssumption, NEW s \in Stocks, NEW tr \in Seq(Trade), NEW fl \in Seq(FlowRow)
  PROVE  /\ IsPosition(ReplayPosition(s, tr, fl))
         /\ ReplayPosition(s, tr, fl).ok => ReplayPosition(s, tr, fl).shares = Net(s, tr)
<1> DEFINE S == GatherReplayEvents(s, tr, fl)
           R(x) == ReplayFcn(S)[x]
           In(x, k) == {t \in OfKind(s, tr, k) : TradeEvent(tr, t) \in x}
           Good(x) == /\ IsPosition(R(x))
                      /\ R(x).ok => R(x).shares = SharesOf(tr, In(x, "BUY")) - SharesOf(tr, In(x, "SELL"))
           N == {n \in Nat : \A x \in SUBSET S : Cardinality(x) = n => Good(x)}
<1>1. IsEventSet(S)
  BY EventsAreOrdered
<1>2. \A x \in SUBSET S : IsFiniteSet(x) /\ Cardinality(x) \in Nat
  BY <1>1, FS_Subset, FS_CardinalityType DEF IsEventSet
<1>3. \A x, k : In(x, k) \in SUBSET DOMAIN tr
  BY DEF OfKind
<1>4. \A x, k : SharesOf(tr, In(x, k)) \in Int
  <2> HIDE DEF In
  <2> QED BY <1>3, SharesOfSome
<1>5. \A e \in S : /\ IsPlayable(e)
                   /\ \/ \E t \in TradesOfStock(s, tr) : e = TradeEvent(tr, t)
                      \/ e.kind = "DIVIDEND"
  <2>1. \A t \in TradesOfStock(s, tr) : IsPlayable(TradeEvent(tr, t))
    BY TradeTable DEF TradesOfStock, TradeEvent, IsPlayable
  <2>2. \A i \in DividendsOfStock(s, fl) :
           IsPlayable(DividendEvent(fl, i)) /\ DividendEvent(fl, i).kind = "DIVIDEND"
    <3>1. \A i \in DividendsOfStock(s, fl) : fl[i] \in FlowRow
      BY DEF DividendsOfStock
    <3> QED BY <3>1 DEF DividendEvent, IsPlayable, FlowRow
  <2> QED BY <2>1, <2>2, EventsAre
<1>6. 0 \in N
  <2>1. \A x \in SUBSET S : Cardinality(x) = 0 => x = {}
    BY <1>2, FS_EmptySet
  <2>2. R({}) = Blank
    BY <1>1, ReplayStep
  <2>3. IsPosition(Blank) /\ Blank.shares = 0
    BY ExactlyIs DEF Blank, IsPosition, Replayed, Phases
  <2>4. In({}, "BUY") = {} /\ In({}, "SELL") = {}
    OBVIOUS
  <2>5. SharesOf(tr, {}) = 0
    BY SumOfNone DEF SharesOf
  <2>6. Good({})
    <3>1. SharesOf(tr, In({}, "BUY")) = 0 /\ SharesOf(tr, In({}, "SELL")) = 0
      BY <2>4, <2>5
    <3> DEFINE b == SharesOf(tr, In({}, "BUY"))
               c == SharesOf(tr, In({}, "SELL"))
               r == R({})
    <3>2. b = 0 /\ c = 0 /\ IsPosition(r) /\ r.shares = 0
      BY <2>2, <2>3, <3>1
    <3> HIDE DEF b, c, r
    <3>3. IsPosition(r) /\ r.shares = b - c
      BY <3>2
    <3> QED BY <3>3 DEF b, c, r
  <2> HIDE DEF Good
  <2> QED BY <2>1, <2>6
<1>7. ASSUME NEW n \in Nat, n \in N PROVE n + 1 \in N
  <2> SUFFICES ASSUME NEW x \in SUBSET S, Cardinality(x) = n + 1 PROVE Good(x)
    OBVIOUS
  <2> DEFINE e == LastEvent(x)
             y == x \ {e}
  <2>1. x # {}
    <3> SUFFICES ASSUME x = {} PROVE FALSE
      OBVIOUS
    <3>1. Cardinality(x) = 0
      BY FS_EmptySet
    <3> QED BY <3>1
  <2>2. e \in x /\ R(x) = ReplayEvent(R(y), e)
    BY <1>1, <2>1, ReplayStep
  <2>3. Good(y)
    <3>1. Cardinality(y) = Cardinality(x) - 1
      BY <1>2, <2>2, FS_RemoveElement
    <3>2. Cardinality(y) = n
      BY <3>1
    <3> HIDE DEF Good, e
    <3> QED BY <3>2, <1>7
  <2>4. e \in S /\ e \notin y /\ x = y \cup {e}
    BY <2>2
  <2> HIDE DEF R, e, y
  <2>5. IsPlayable(e)
    BY <1>5, <2>4
  <2>6. IsPosition(R(y))
    BY <2>3
  <2>7. /\ IsPosition(R(x))
        /\ R(x).ok => /\ R(y).ok
                      /\ e.kind = "BUY" => R(x).shares = R(y).shares + e.shares
                      /\ e.kind = "SELL" => R(x).shares = R(y).shares - e.shares
                      /\ e.kind = "DIVIDEND" => R(x).shares = R(y).shares
    BY <2>2, <2>5, <2>6, EventKeepsShape
  <2>8. /\ \A t \in TradesOfStock(s, tr) :
             /\ TradeEvent(tr, t).kind = tr[t].type /\ TradeEvent(tr, t).seq = t
             /\ TradeEvent(tr, t).shares = tr[t].shares
             /\ tr[t].type \in {"BUY", "SELL"} /\ t \in DOMAIN tr
        /\ \A k : OfKind(s, tr, k) = {t \in TradesOfStock(s, tr) : tr[t].type = k}
    BY TradeTable DEF TradeEvent, TradesOfStock, OfKind
  <2>9. CASE e.kind = "DIVIDEND"
    <3>1. In(x, "BUY") = In(y, "BUY") /\ In(x, "SELL") = In(y, "SELL")
      BY <2>4, <2>8, <2>9
    <3> HIDE DEF In
    <3> QED BY <2>3, <2>7, <2>9, <3>1
  <2>10. ASSUME NEW t \in TradesOfStock(s, tr), e = TradeEvent(tr, t)
         PROVE  Good(x)
    <3>1. /\ In(x, tr[t].type) = In(y, tr[t].type) \cup {t} /\ t \notin In(y, tr[t].type)
          /\ \A k : k # tr[t].type => In(x, k) = In(y, k)
      BY <2>4, <2>8, <2>10
    <3>2. t \in DOMAIN tr /\ e.kind = tr[t].type /\ e.shares = tr[t].shares
          /\ tr[t].type \in {"BUY", "SELL"} /\ tr[t].shares \in Int
      BY <2>8, <2>10, TradeTable
    <3> HIDE DEF In
    <3>3. SharesOf(tr, In(x, tr[t].type)) = SharesOf(tr, In(y, tr[t].type)) + tr[t].shares
      BY <1>3, <3>1, <3>2, SharesOfOneMore
    <3>4. CASE tr[t].type = "BUY"
      <4>1. SharesOf(tr, In(x, "SELL")) = SharesOf(tr, In(y, "SELL"))
        BY <3>1, <3>4
      <4> QED BY <1>4, <2>3, <2>7, <3>2, <3>3, <3>4, <4>1
    <3>5. CASE tr[t].type = "SELL"
      <4>1. SharesOf(tr, In(x, "BUY")) = SharesOf(tr, In(y, "BUY"))
        BY <3>1, <3>5
      <4> QED BY <1>4, <2>3, <2>7, <3>2, <3>3, <3>5, <4>1
    <3> QED BY <3>2, <3>4, <3>5
  <2> QED BY <1>5, <2>4, <2>9, <2>10
<1>8. Nat \subseteq N
  <2> HIDE DEF N
  <2> QED BY <1>6, <1>7, NatInductionOnSets
<1>9. Good(S)
  <2> HIDE DEF Good
  <2> QED BY <1>2, <1>8
<1>10. \A k \in {"BUY", "SELL"} : In(S, k) = OfKind(s, tr, k)
  <2>1. \A t \in TradesOfStock(s, tr) : TradeEvent(tr, t) \in S
    BY EventsAre
  <2> QED BY <2>1 DEF OfKind, TradesOfStock
<1>11. ReplayPosition(s, tr, fl) = R(S)
  BY ReplayUnfold DEF ReplayOf
<1> HIDE DEF R, In, S
<1> QED BY <1>9, <1>10, <1>11 DEF Net

-----------------------------------------------------------------------------
(* A flow has the day of its trade; a dividend has a stock and no trade.   *)
LinkedRows ==
    \A i \in DOMAIN flows :
        /\ flows[i].trade \in DOMAIN trades => flows[i].day = trades[flows[i].trade].day
        /\ flows[i].type = "DIVIDEND" => flows[i].stock \in Stocks /\ flows[i].trade = 0

(* A flow appended, alone or with the trade it names, keeps the links.     *)
LEMMA LinkedAppend ==
  ASSUME Inv, LinkedRows, NEW f \in FlowRow, flows' = Append(flows, f),
         \/ UNCHANGED trades /\ f.trade = 0
         \/ \E x \in Trade : /\ trades' = Append(trades, x) /\ f.trade = Len(trades) + 1
                             /\ f.day = x.day /\ f.type # "DIVIDEND",
         f.type = "DIVIDEND" => f.stock \in Stocks
  PROVE  LinkedRows'
<1>1. trades \in Seq(Trade) /\ flows \in Seq(FlowRow)
  BY DEF Inv, Tables
<1>2. \A i \in DOMAIN flows' : \/ i \in DOMAIN flows /\ flows'[i] = flows[i]
                               \/ flows'[i] = f
  BY <1>1
<1>3. \A i \in DOMAIN flows : flows[i].trade \in Nat /\ flows[i].trade <= Len(trades)
  BY Rows DEF Inv, Tables
<1>4. CASE UNCHANGED trades /\ f.trade = 0
  <2>1. 0 \notin DOMAIN trades
    BY <1>1
  <2> QED BY <1>2, <1>4, <2>1 DEF LinkedRows
<1>5. ASSUME NEW x \in Trade, trades' = Append(trades, x), f.trade = Len(trades) + 1,
             f.day = x.day, f.type # "DIVIDEND"
      PROVE  LinkedRows'
  <2>1. /\ DOMAIN trades' = DOMAIN trades \cup {Len(trades) + 1}
        /\ trades'[Len(trades) + 1] = x /\ \A t \in DOMAIN trades : trades'[t] = trades[t]
    BY <1>1, <1>5
  <2>2. \A i \in DOMAIN flows : flows[i].trade # Len(trades) + 1
    BY <1>1, <1>3
  <2> QED BY <1>2, <1>5, <2>1, <2>2 DEF LinkedRows
<1> QED BY <1>4, <1>5

-----------------------------------------------------------------------------
(* How the events of a stock change with the tables.                       *)
LEMMA EventsKept ==
  ASSUME NEW s, NEW tr, NEW fl, NEW ts, NEW fs,
         TradesOfStock(s, ts) = TradesOfStock(s, tr),
         \A t \in TradesOfStock(s, tr) :
             /\ ts[t].type = tr[t].type /\ ts[t].day = tr[t].day
             /\ ts[t].shares = tr[t].shares /\ ts[t].price = tr[t].price,
         DividendsOfStock(s, fs) = DividendsOfStock(s, fl),
         \A i \in DividendsOfStock(s, fl) : fs[i].day = fl[i].day /\ fs[i].amount = fl[i].amount
  PROVE  GatherReplayEvents(s, ts, fs) = GatherReplayEvents(s, tr, fl)
<1>1. \A t \in TradesOfStock(s, tr) : TradeEvent(ts, t) = TradeEvent(tr, t)
  BY DEF TradeEvent
<1>2. \A i \in DividendsOfStock(s, fl) : DividendEvent(fs, i) = DividendEvent(fl, i)
  BY DEF DividendEvent
<1> QED BY <1>1, <1>2, EventsAre

AppendedTrade(tr, x) == [kind |-> x.type, day |-> x.day, seq |-> Len(tr) + 1,
                         shares |-> x.shares, price |-> x.price]
AppendedDividend(fl, f) == [kind |-> "DIVIDEND", day |-> f.day, seq |-> Len(fl) + 1,
                            amount |-> f.amount]

(* ts is tr with x appended, row by row.                                   *)
OneMoreRow(ts, tr, x) ==
    /\ DOMAIN ts = DOMAIN tr \cup {Len(tr) + 1} /\ Len(tr) + 1 \notin DOMAIN tr
    /\ ts[Len(tr) + 1] = x /\ \A u \in DOMAIN tr : ts[u] = tr[u]

(* What Append does, said without Append.                                  *)
LEMMA AppendsOneRow ==
  ASSUME NEW T, NEW tr \in Seq(T), NEW x \in T
  PROVE  OneMoreRow(Append(tr, x), tr, x)
BY DEF OneMoreRow

(* A trade appended with its cash flow is one event more of its stock and  *)
(* nothing to the others.                                                  *)
LEMMA EventsOfAppendedTrade ==
  ASSUME LedgerAssumption, Tables,
         NEW x \in Trade, x.void = FALSE, NEW f \in FlowRow, f.type # "DIVIDEND",
         OneMoreRow(trades', trades, x), OneMoreRow(flows', flows, f)
  PROVE  /\ \A s : s # x.stock => GatherReplayEvents(s, trades', flows')
                                     = GatherReplayEvents(s, trades, flows)
         /\ AppendedTrade(trades, x) \notin GatherReplayEvents(x.stock, trades, flows)
         /\ GatherReplayEvents(x.stock, trades', flows')
              = GatherReplayEvents(x.stock, trades, flows) \cup {AppendedTrade(trades, x)}
<1> DEFINE m == Len(trades) + 1
           e == [kind |-> x.type, day |-> x.day, seq |-> m, shares |-> x.shares, price |-> x.price]
<1>1. /\ DOMAIN trades' = DOMAIN trades \cup {m} /\ m \notin DOMAIN trades
      /\ trades'[m] = x /\ \A u \in DOMAIN trades : trades'[u] = trades[u]
  BY DEF OneMoreRow
<1>2. /\ DOMAIN flows' = DOMAIN flows \cup {Len(flows) + 1} /\ Len(flows) + 1 \notin DOMAIN flows
      /\ flows'[Len(flows) + 1] = f /\ \A i \in DOMAIN flows : flows'[i] = flows[i]
  BY DEF OneMoreRow
<1>3. x.type \in {"BUY", "SELL"}
  BY DEF Trade
<1> HIDE DEF m
<1>4. \A s : /\ DividendsOfStock(s, flows') = DividendsOfStock(s, flows)
             /\ \A i \in DividendsOfStock(s, flows) : flows'[i] = flows[i]
  BY <1>2 DEF DividendsOfStock
<1>5. \A s : \A t \in TradesOfStock(s, trades) : trades'[t] = trades[t] /\ t # m
  BY <1>1 DEF TradesOfStock
<1>6. \A s : s # x.stock => TradesOfStock(s, trades') = TradesOfStock(s, trades)
  BY <1>1 DEF TradesOfStock
<1>7. TradesOfStock(x.stock, trades') = TradesOfStock(x.stock, trades) \cup {m}
  BY <1>1 DEF TradesOfStock
<1>8. ASSUME NEW s, s # x.stock
      PROVE  GatherReplayEvents(s, trades', flows') = GatherReplayEvents(s, trades, flows)
  BY <1>4, <1>5, <1>6, <1>8, EventsKept
<1>9. e \notin GatherReplayEvents(x.stock, trades, flows)
  <2>1. \A t \in TradesOfStock(x.stock, trades) : TradeEvent(trades, t).seq # m
    BY <1>5 DEF TradeEvent
  <2>2. \A i \in DividendsOfStock(x.stock, flows) : DividendEvent(flows, i).kind = "DIVIDEND"
    BY DEF DividendEvent
  <2> QED BY <1>3, <2>1, <2>2, EventsAre
<1>10. GatherReplayEvents(x.stock, trades', flows') = GatherReplayEvents(x.stock, trades, flows) \cup {e}
  <2>1. \A t \in TradesOfStock(x.stock, trades) : TradeEvent(trades', t) = TradeEvent(trades, t)
    BY <1>5 DEF TradeEvent
  <2>2. TradeEvent(trades', m) = e
    BY <1>1 DEF TradeEvent
  <2>3. \A i \in DividendsOfStock(x.stock, flows) : DividendEvent(flows', i) = DividendEvent(flows, i)
    BY <1>4 DEF DividendEvent
  <2>4. {TradeEvent(trades', t) : t \in TradesOfStock(x.stock, trades')}
          = {TradeEvent(trades, t) : t \in TradesOfStock(x.stock, trades)} \cup {e}
    <3> HIDE DEF e
    <3> QED BY <1>7, <2>1, <2>2
  <2>5. {DividendEvent(flows', i) : i \in DividendsOfStock(x.stock, flows')}
          = {DividendEvent(flows, i) : i \in DividendsOfStock(x.stock, flows)}
    BY <1>4, <2>3
  <2> HIDE DEF e
  <2> QED BY <2>4, <2>5, EventsAre
<1> QED BY <1>8, <1>9, <1>10 DEF m, AppendedTrade

(* A flow appended is one event more if it is a dividend.                  *)
LEMMA EventsOfAppendedFlow ==
  ASSUME LedgerAssumption, Tables,
         NEW f \in FlowRow, f.void = FALSE, OneMoreRow(flows', flows, f)
  PROVE  /\ \A s : f.type # "DIVIDEND" \/ s # f.stock =>
                     GatherReplayEvents(s, trades, flows') = GatherReplayEvents(s, trades, flows)
         /\ f.type = "DIVIDEND" =>
              /\ AppendedDividend(flows, f) \notin GatherReplayEvents(f.stock, trades, flows)
              /\ GatherReplayEvents(f.stock, trades, flows')
                   = GatherReplayEvents(f.stock, trades, flows) \cup {AppendedDividend(flows, f)}
<1> DEFINE m == Len(flows) + 1
           e == [kind |-> "DIVIDEND", day |-> f.day, seq |-> m, amount |-> f.amount]
<1>1. /\ DOMAIN flows' = DOMAIN flows \cup {m} /\ m \notin DOMAIN flows
      /\ flows'[m] = f /\ \A i \in DOMAIN flows : flows'[i] = flows[i]
  BY DEF OneMoreRow
<1>2. \A t \in DOMAIN trades : trades[t].type \in {"BUY", "SELL"}
  BY TradeTable DEF Tables
<1> HIDE DEF m
<1>3. \A s : \A i \in DividendsOfStock(s, flows) : flows'[i] = flows[i] /\ i # m
  BY <1>1 DEF DividendsOfStock
<1>4. \A s : f.type # "DIVIDEND" \/ s # f.stock => DividendsOfStock(s, flows') = DividendsOfStock(s, flows)
  BY <1>1 DEF DividendsOfStock
<1>5. ASSUME NEW s, f.type # "DIVIDEND" \/ s # f.stock
      PROVE  GatherReplayEvents(s, trades, flows') = GatherReplayEvents(s, trades, flows)
  BY <1>3, <1>4, <1>5, EventsKept
<1>6. ASSUME f.type = "DIVIDEND"
      PROVE  /\ e \notin GatherReplayEvents(f.stock, trades, flows)
             /\ GatherReplayEvents(f.stock, trades, flows') = GatherReplayEvents(f.stock, trades, flows) \cup {e}
  <2>1. DividendsOfStock(f.stock, flows') = DividendsOfStock(f.stock, flows) \cup {m}
    BY <1>1, <1>6 DEF DividendsOfStock
  <2>2. \A i \in DividendsOfStock(f.stock, flows) :
           DividendEvent(flows', i) = DividendEvent(flows, i) /\ DividendEvent(flows, i).seq # m
    BY <1>3 DEF DividendEvent
  <2>3. DividendEvent(flows', m) = e
    BY <1>1 DEF DividendEvent
  <2>4. \A t \in TradesOfStock(f.stock, trades) : TradeEvent(trades, t).kind # "DIVIDEND"
    BY <1>2 DEF TradeEvent, TradesOfStock
  <2>5. e.kind = "DIVIDEND" /\ e.seq = m
    OBVIOUS
  <2> HIDE DEF e
  <2>6. e \notin GatherReplayEvents(f.stock, trades, flows)
    BY <2>2, <2>4, <2>5, EventsAre
  <2>7. {DividendEvent(flows', i) : i \in DividendsOfStock(f.stock, flows')}
          = {DividendEvent(flows, i) : i \in DividendsOfStock(f.stock, flows)} \cup {e}
    BY <2>1, <2>2, <2>3
  <2>8. GatherReplayEvents(f.stock, trades, flows') = GatherReplayEvents(f.stock, trades, flows) \cup {e}
    BY <2>7, EventsAre
  <2> QED BY <2>6, <2>8
<1> QED BY <1>5, <1>6 DEF m, AppendedDividend

-----------------------------------------------------------------------------
(* The books: rows of the right shape, whose shares are those of the valid *)
(* trades, and which are their replay where the rows came in order.        *)
Row == [shares : Nat, cost : Int, open : Days \cup {0}, phase : Phases, value : Int]
IsRow(r) == /\ r \in Row
            /\ r.shares > 0 <=> r.open # 0
            /\ r.shares = 0 => r = Flat

BooksInv ==
    /\ pos \in [Stocks -> Row] /\ \A s \in Stocks : IsRow(pos[s])
    /\ \A s \in Stocks : pos[s].shares = Net(s, trades)
    /\ InOrderIsReplay

(* Where the rows come in order, all events are before the flow appended.  *)
LEMMA AllBefore ==
  ASSUME Inv, LinkedRows, NEW f \in FlowRow, flows' = Append(flows, f), InOrder(f.stock)'
  PROVE  \A e \in GatherReplayEvents(f.stock, trades, flows) : e.day < f.day
<1>1. flows \in Seq(FlowRow) /\ trades \in Seq(Trade) /\ Len(flows) \in Nat
  BY DEF Inv, Tables
<1> DEFINE m == Len(flows) + 1
<1>2. /\ m \in DOMAIN flows' /\ flows'[m] = f
      /\ \A i \in DOMAIN flows : i \in DOMAIN flows' /\ flows'[i] = flows[i] /\ i < m
  BY <1>1
<1>3. \A i \in DOMAIN flows : flows[i].stock = f.stock => flows[i].day < f.day
  BY <1>2 DEF InOrder
<1>4. ASSUME NEW t \in TradesOfStock(f.stock, trades)
      PROVE  TradeEvent(trades, t).day < f.day
  <2>1. t \in DOMAIN trades /\ trades[t].stock = f.stock
    BY DEF TradesOfStock
  <2>2. PICK i \in DOMAIN flows : Settles(flows[i], trades[t], t)
    BY <2>1 DEF Inv, EachHasFlow
  <2>3. flows[i].stock = f.stock /\ flows[i].day = trades[t].day
    BY <2>1, <2>2 DEF Settles, LinkedRows
  <2> QED BY <1>3, <2>3 DEF TradeEvent
<1>5. ASSUME NEW i \in DividendsOfStock(f.stock, flows)
      PROVE  DividendEvent(flows, i).day < f.day
  BY <1>3 DEF DividendsOfStock, DividendEvent
<1> QED BY <1>4, <1>5, EventsAre

(* Rows that are in order were in order before the last one came.          *)
LEMMA InOrderBefore ==
  ASSUME Inv, NEW f \in FlowRow, flows' = Append(flows, f), NEW s, InOrder(s)'
  PROVE  InOrder(s)
<1>1. flows \in Seq(FlowRow)
  BY DEF Inv, Tables
<1>2. \A i \in DOMAIN flows : i \in DOMAIN flows' /\ flows'[i] = flows[i]
  BY <1>1
<1> QED BY <1>2 DEF InOrder

(* Voiding does not change the order of the rows.                          *)
LEMMA InOrderVoided ==
  ASSUME Tables, NEW I \in SUBSET DOMAIN flows, flows' = VoidFlows(I), NEW s
  PROVE  InOrder(s)' <=> InOrder(s)
<1>1. /\ DOMAIN flows' = DOMAIN flows
      /\ \A i \in DOMAIN flows : flows'[i].stock = flows[i].stock /\ flows'[i].day = flows[i].day
  BY VoidedFlowRows
<1> QED BY <1>1 DEF InOrder

(* A stock none of whose events changed keeps what it has.                 *)
LEMMA ReplayKept ==
  ASSUME NEW s \in Stocks, IsReplay(s), pos'[s] = pos[s],
         GatherReplayEvents(s, trades', flows') = GatherReplayEvents(s, trades, flows)
  PROVE  IsReplay(s)'
<1>1. ReplayPosition(s, trades', flows') = ReplayPosition(s, trades, flows)
  BY ReplayUnfold
<1> QED BY <1>1 DEF IsReplay

(* One event more, after all others, changes the replay by that event.     *)
LEMMA ReplayGrows ==
  ASSUME LedgerAssumption, Tables, Tables', NEW s, NEW e,
         e \notin GatherReplayEvents(s, trades, flows),
         GatherReplayEvents(s, trades', flows') = GatherReplayEvents(s, trades, flows) \cup {e},
         \A f \in GatherReplayEvents(s, trades, flows) : f.day < e.day
  PROVE  ReplayPosition(s, trades', flows') = ReplayEvent(ReplayPosition(s, trades, flows), e)
<1> DEFINE S == GatherReplayEvents(s, trades, flows)
<1>1. IsEventSet(S \cup {e})
  <2>1. IsEventSet(GatherReplayEvents(s, trades', flows'))
    BY EventsAreOrdered DEF Tables
  <2> QED BY <2>1
<1>2. \A f \in S : Precedes(f, e)
  BY DEF Precedes
<1>3. ReplayOf(S \cup {e}) = ReplayEvent(ReplayOf(S), e)
  <2> HIDE DEF S
  <2>1. e \notin S
    BY DEF S
  <2> QED BY <1>1, <1>2, <2>1, ReplayOneMore
<1> QED BY <1>3, ReplayUnfold

(* The row of the position says what the replay says, its cost within k    *)
(* halves of the column's last decimal.                                    *)
Agrees(row, r, k) ==
    r.ok /\ row.shares = r.shares /\ row.open = r.open /\ Close(row.cost, r.cost, k)

(* A row for the new event, computed from a row that agreed with the replay *)
(* before it, agrees with the replay after it, up to one rounding more.    *)
LEMMA NewEventKeepsReplay ==
  ASSUME LedgerAssumption, Inv, LinkedRows, InOrderIsReplay,
         NEW f \in FlowRow, flows' = Append(flows, f),
         NEW s \in Stocks, f.stock = s,
         Tables',
         \A x : x # s => GatherReplayEvents(x, trades', flows') = GatherReplayEvents(x, trades, flows),
         NEW e, e.day = f.day, e \notin GatherReplayEvents(s, trades, flows),
         GatherReplayEvents(s, trades', flows')
           = GatherReplayEvents(s, trades, flows) \cup {e},
         \A x \in Stocks : x # s => pos'[x] = pos[x],
         \A r \in Replayed, k \in Nat :
             Agrees(pos[s], r, k) => Agrees(pos'[s], ReplayEvent(r, e), k + 1)
  PROVE  InOrderIsReplay'
<1> DEFINE r == ReplayPosition(s, trades, flows)
           S == GatherReplayEvents(s, trades, flows)
<1>1. trades \in Seq(Trade) /\ flows \in Seq(FlowRow)
  BY DEF Inv, Tables
<1>2. ASSUME NEW x \in Stocks, InOrder(x)' PROVE IsReplay(x)'
  <2>1. InOrder(x) /\ IsReplay(x)
    BY <1>2, InOrderBefore DEF InOrderIsReplay
  <2>2. CASE x # s
    BY <2>1, <2>2, ReplayKept
  <2>3. CASE x = s
    <3>1. \A g \in GatherReplayEvents(s, trades, flows) : g.day < e.day
      BY <1>2, <2>3, AllBefore
    <3>2. ReplayPosition(s, trades', flows') = ReplayEvent(r, e)
      BY <3>1, ReplayGrows DEF Inv
    <3>3. r \in Replayed
      BY <1>1, ReplayShares DEF IsPosition
    <3>4. Agrees(pos[s], r, Cardinality(S))
      BY <2>1, <2>3 DEF IsReplay, Agrees
    <3>5. Cardinality(S) \in Nat /\ Cardinality(S \cup {e}) = Cardinality(S) + 1
      <4>1. IsFiniteSet(S) /\ e \notin S
        BY <1>1, EventsAreOrdered DEF IsEventSet
      <4> HIDE DEF S
      <4> QED BY <4>1, FS_CardinalityType, FS_AddElement
    <3>6. Agrees(pos'[s], ReplayEvent(r, e), Cardinality(S) + 1)
      <4> HIDE DEF r, S
      <4> QED BY <3>3, <3>4, <3>5
    <3>7. Agrees(pos'[s], ReplayEvent(r, e), Cardinality(S \cup {e}))
      BY <3>5, <3>6
    <3> HIDE DEF r
    <3> QED BY <2>3, <3>2, <3>7 DEF IsReplay, Agrees
  <2> QED BY <2>2, <2>3
<1> QED BY <1>2 DEF InOrderIsReplay

(* record_trade, BUY: the row computed from the old row is the replay      *)
(* with the purchase played last.                                          *)
LEMMA BuyKeepsBooks ==
  ASSUME LedgerAssumption, Inv, LinkedRows, BooksInv, Tables', NEW s \in Stocks, NEW d \in Days,
         NEW p \in Prices, NEW n \in Lots, RecordBuy(s, d, p, n)
  PROVE  BooksInv'
<1> DEFINE t == Len(trades) + 1
           buy == [stock |-> s, type |-> "BUY", day |-> d, price |-> p, shares |-> n, void |-> FALSE]
           fee == Flow("BUY_FEE", -(p * n + Fee), d, s, t, NoKey)
           y == ComputeWac(pos[s].shares, Exactly(pos[s].cost), n, p, Fee)
           c == Stored(y)
           e == AppendedTrade(trades, buy)
           o == IF Held(s) THEN pos[s].open ELSE d
<1>1. trades \in Seq(Trade) /\ flows \in Seq(FlowRow) /\ t \in Nat
  BY DEF Inv, Tables
<1>2. p \in Nat /\ n \in Nat \ {0} /\ d \in Nat \ {0} /\ Fee \in Nat /\ Days \subseteq Nat \ {0}
  <2>1. Prices \subseteq Nat /\ Lots \subseteq Nat \ {0} /\ Days \subseteq Nat \ {0} /\ Fee \in Nat
    BY DEF LedgerAssumption
  <2> QED BY <2>1
<1>3. buy \in Trade /\ fee \in FlowRow /\ buy.void = FALSE /\ fee.type # "DIVIDEND"
      /\ fee.stock = s /\ fee.day = d /\ buy.stock = s /\ buy.type = "BUY" /\ buy.shares = n
      /\ buy.day = d /\ buy.price = p
  <2>1. p * n \in Int
    BY <1>2
  <2>2. -(p * n + Fee) \in Int
    BY <1>2, <2>1
  <2> QED BY <1>1, <2>2 DEF Trade, Flow, FlowRow, FlowTypes
<1>4. /\ trades' = Append(trades, buy) /\ flows' = Append(flows, fee)
      /\ pos' = [pos EXCEPT ![s] = [pos[s] EXCEPT !.shares = pos[s].shares + n, !.phase = "BUILD",
                                                  !.cost = c, !.open = o]]
  <2>1. trades' = Append(trades, buy) /\ flows' = Append(flows, fee)
    BY DEF RecordBuy
  <2>2. pos' = [pos EXCEPT ![s] = [pos[s] EXCEPT
                   !.shares = pos[s].shares + n, !.phase = "BUILD",
                   !.cost = Stored(ComputeWac(pos[s].shares, Exactly(pos[s].cost), n, p, Fee)),
                   !.open = IF Held(s) THEN pos[s].open ELSE d]]
    BY DEF RecordBuy
  <2> QED BY <2>1, <2>2
<1>5. /\ pos[s] \in Row /\ pos \in [Stocks -> Row]
      /\ Held(s) <=> pos[s].open # 0
      /\ pos[s].shares \in Nat /\ pos[s].cost \in Int /\ pos[s].open \in Days \cup {0}
  BY DEF BooksInv, IsRow, Held, Row
<1>6. c \in Int /\ o \in Days /\ o # 0 /\ pos[s].shares + n \in Nat \ {0}
  <2>1. c \in Int
    <3>1. y \in Fraction
      BY <1>2, <1>5, ExactlyIs, WacIsFraction
    <3> QED BY <3>1, StoredIsClose
  <2> QED BY <1>2, <1>5, <2>1
<1>7. trades' \in Seq(Trade) /\ flows' \in Seq(FlowRow)
  BY <1>1, <1>3, <1>4
<1> HIDE DEF y, c, o, buy, fee, t
<1>8. pos'[s] = [shares |-> pos[s].shares + n, cost |-> c, open |-> o, phase |-> "BUILD",
                 value |-> pos[s].value]
      /\ \A x \in Stocks : x # s => pos'[x] = pos[x]
  BY <1>4, <1>5 DEF Row
<1>9. IsRow(pos'[s])
  <2>1. pos'[s] \in Row
    BY <1>5, <1>6, <1>8 DEF Row, Phases
  <2>2. pos'[s].shares > 0 /\ pos'[s].open # 0 /\ pos'[s].shares # 0
    BY <1>6, <1>8
  <2> QED BY <2>1, <2>2 DEF IsRow
<1>10. pos' \in [Stocks -> Row] /\ \A x \in Stocks : IsRow(pos'[x])
  <2>1. \A x \in Stocks : IsRow(pos'[x])
    BY <1>8, <1>9 DEF BooksInv
  <2>2. DOMAIN pos' = Stocks /\ pos' = [x \in DOMAIN pos' |-> pos'[x]]
    BY <1>4, <1>5
  <2> QED BY <2>1, <2>2 DEF IsRow
<1>11. \A x \in Stocks : pos'[x].shares = Net(x, trades')
  <2>1. Net(s, trades') = Net(s, trades) + n /\ \A x : x # s => Net(x, trades') = Net(x, trades)
    BY <1>1, <1>3, <1>4, NetAppend
  <2> QED BY <1>8, <2>1 DEF BooksInv
<1>12. /\ \A x : x # s => GatherReplayEvents(x, trades', flows') = GatherReplayEvents(x, trades, flows)
       /\ e \notin GatherReplayEvents(s, trades, flows)
       /\ GatherReplayEvents(s, trades', flows') = GatherReplayEvents(s, trades, flows) \cup {e}
  <2>1. /\ \A x : x # buy.stock => GatherReplayEvents(x, trades', flows')
                                     = GatherReplayEvents(x, trades, flows)
        /\ AppendedTrade(trades, buy) \notin GatherReplayEvents(buy.stock, trades, flows)
        /\ GatherReplayEvents(buy.stock, trades', flows')
             = GatherReplayEvents(buy.stock, trades, flows) \cup {AppendedTrade(trades, buy)}
    <3>1. OneMoreRow(trades', trades, buy) /\ OneMoreRow(flows', flows, fee)
      BY <1>1, <1>3, <1>4, AppendsOneRow
    <3> QED BY <1>3, <3>1, EventsOfAppendedTrade DEF Inv
  <2> QED BY <1>3, <2>1
<1>14. e.day = d /\ e.kind = "BUY" /\ e.shares = n /\ e.price = p
  BY <1>3 DEF AppendedTrade
<1> HIDE DEF e
<1>13. ASSUME NEW r \in Replayed, NEW k \in Nat, Agrees(pos[s], r, k)
       PROVE  Agrees(pos'[s], ReplayEvent(r, e), k + 1)
  <2>1. /\ r.ok = TRUE /\ r.shares = pos[s].shares /\ r.open = pos[s].open
        /\ r.cost \in Fraction /\ Close(pos[s].cost, r.cost, k)
    BY <1>13 DEF Agrees, Replayed
  <2>2. ReplayEvent(r, e) = [r EXCEPT !.shares = r.shares + n,
                                      !.cost = ComputeWac(r.shares, r.cost, n, p, Fee),
                                      !.open = IF r.open = 0 THEN d ELSE r.open, !.phase = "BUILD"]
    BY <2>1, <1>14 DEF ReplayEvent, Replayed
  <2>3. ReplayEvent(r, e) = [ok |-> r.ok, shares |-> r.shares + n,
                             cost |-> ComputeWac(r.shares, r.cost, n, p, Fee),
                             open |-> IF r.open = 0 THEN d ELSE r.open, phase |-> "BUILD"]
    BY <2>2 DEF Replayed
  <2>4. o = IF r.open = 0 THEN d ELSE r.open
    BY <1>5, <2>1 DEF o
  <2>5. Close(c, ComputeWac(r.shares, r.cost, n, p, Fee), k + 1)
    BY <1>2, <1>5, <2>1, CloseWac DEF c, y
  <2> QED BY <1>8, <2>1, <2>3, <2>4, <2>5 DEF Agrees
<1>15. InOrderIsReplay'
  <2>1. InOrderIsReplay
    BY DEF BooksInv
  <2> QED BY <1>3, <1>4, <1>8, <1>12, <1>13, <1>14, <2>1, NewEventKeepsReplay
<1> QED BY <1>10, <1>11, <1>15 DEF BooksInv

(* record_trade, SELL, of a part or of all that is held.                   *)
LEMMA SellKeepsBooks ==
  ASSUME LedgerAssumption, Inv, LinkedRows, BooksInv, Tables', NEW s \in Stocks, NEW d \in Days,
         NEW p \in Prices, NEW n \in Lots, RecordSell(s, d, p, n)
  PROVE  BooksInv'
<1> DEFINE t == Len(trades) + 1
           sell == [stock |-> s, type |-> "SELL", day |-> d, price |-> p, shares |-> n, void |-> FALSE]
           in == Flow("SELL_PROCEEDS", p * n - Fee - Tax, d, s, t, NoKey)
           e == AppendedTrade(trades, sell)
           h == pos[s].shares
<1>1. trades \in Seq(Trade) /\ flows \in Seq(FlowRow) /\ t \in Nat
  BY DEF Inv, Tables
<1>2. p \in Nat /\ n \in Nat \ {0} /\ d \in Nat \ {0} /\ Fee \in Nat /\ Tax \in Nat
  <2>1. /\ Prices \subseteq Nat /\ Lots \subseteq Nat \ {0} /\ Days \subseteq Nat \ {0}
        /\ Fee \in Nat /\ Tax \in Nat
    BY DEF LedgerAssumption
  <2> QED BY <2>1
<1>3. sell \in Trade /\ in \in FlowRow /\ sell.void = FALSE /\ in.type # "DIVIDEND"
      /\ in.stock = s /\ in.day = d /\ sell.stock = s /\ sell.type = "SELL" /\ sell.shares = n
      /\ sell.day = d /\ sell.price = p
  <2>1. p * n \in Int
    BY <1>2
  <2>2. p * n - Fee - Tax \in Int
    BY <1>2, <2>1
  <2> QED BY <1>1, <2>2 DEF Trade, Flow, FlowRow, FlowTypes
<1>4. /\ trades' = Append(trades, sell) /\ flows' = Append(flows, in) /\ n <= h
      /\ pos' = [pos EXCEPT ![s] = IF n = h THEN Flat
                                   ELSE [pos[s] EXCEPT !.shares = h - n, !.phase = "REDUCE"]]
  BY DEF RecordSell
<1>5. /\ pos[s] \in Row /\ pos \in [Stocks -> Row]
      /\ h > 0 <=> pos[s].open # 0
      /\ h \in Nat /\ pos[s].cost \in Int /\ pos[s].open \in Days \cup {0}
  BY DEF BooksInv, IsRow, Row
<1>6. h - n \in Nat
  BY <1>2, <1>4, <1>5
<1>7. trades' \in Seq(Trade) /\ flows' \in Seq(FlowRow)
  BY <1>1, <1>3, <1>4
<1> HIDE DEF sell, in, t, h
<1>8. /\ n = h => pos'[s] = Flat
      /\ n # h => pos'[s] = [shares |-> h - n, cost |-> pos[s].cost, open |-> pos[s].open,
                             phase |-> "REDUCE", value |-> pos[s].value]
      /\ \A x \in Stocks : x # s => pos'[x] = pos[x]
  BY <1>4, <1>5 DEF Row
<1>9. IsRow(pos'[s]) /\ pos'[s].shares = h - n
  <2>1. CASE n = h
    BY <1>8, <1>6, <2>1 DEF IsRow, Row, Flat, Phases
  <2>2. CASE n # h
    <3>1. pos'[s] \in Row
      BY <1>5, <1>6, <1>8, <2>2 DEF Row, Phases
    <3>2. pos'[s].shares = h - n /\ pos'[s].open = pos[s].open
      BY <1>8, <2>2
    <3>3. h - n > 0 /\ h > 0
      BY <1>2, <1>4, <1>5, <2>2
    <3> QED BY <1>5, <3>1, <3>2, <3>3 DEF IsRow
  <2> QED BY <2>1, <2>2
<1>10. pos' \in [Stocks -> Row] /\ \A x \in Stocks : IsRow(pos'[x])
  <2>1. \A x \in Stocks : IsRow(pos'[x])
    BY <1>8, <1>9 DEF BooksInv
  <2>2. DOMAIN pos' = Stocks /\ pos' = [x \in DOMAIN pos' |-> pos'[x]]
    BY <1>4, <1>5
  <2> QED BY <2>1, <2>2 DEF IsRow
<1>11. \A x \in Stocks : pos'[x].shares = Net(x, trades')
  <2>1. Net(s, trades') = Net(s, trades) - n /\ \A x : x # s => Net(x, trades') = Net(x, trades)
    BY <1>1, <1>3, <1>4, NetAppend
  <2> QED BY <1>8, <1>9, <2>1 DEF BooksInv, h
<1>12. /\ \A x : x # s => GatherReplayEvents(x, trades', flows') = GatherReplayEvents(x, trades, flows)
       /\ e \notin GatherReplayEvents(s, trades, flows)
       /\ GatherReplayEvents(s, trades', flows') = GatherReplayEvents(s, trades, flows) \cup {e}
  <2>1. OneMoreRow(trades', trades, sell) /\ OneMoreRow(flows', flows, in)
    BY <1>1, <1>3, <1>4, AppendsOneRow
  <2>2. /\ \A x : x # sell.stock => GatherReplayEvents(x, trades', flows')
                                      = GatherReplayEvents(x, trades, flows)
        /\ e \notin GatherReplayEvents(sell.stock, trades, flows)
        /\ GatherReplayEvents(sell.stock, trades', flows')
             = GatherReplayEvents(sell.stock, trades, flows) \cup {e}
    BY <1>3, <2>1, EventsOfAppendedTrade DEF Inv
  <2> QED BY <1>3, <2>2
<1>13. e.day = d /\ e.kind = "SELL" /\ e.shares = n
  BY <1>3 DEF AppendedTrade
<1> HIDE DEF e
<1>14. ASSUME NEW r \in Replayed, NEW k \in Nat, Agrees(pos[s], r, k)
       PROVE  Agrees(pos'[s], ReplayEvent(r, e), k + 1)
  <2>1. /\ r.ok = TRUE /\ r.shares = h /\ r.open = pos[s].open
        /\ r.cost \in Fraction /\ Close(pos[s].cost, r.cost, k)
    BY <1>14 DEF Agrees, Replayed, h
  <2>0. k + 1 \in Nat /\ k <= k + 1
    OBVIOUS
  <2>2. CASE n = h
    <3>1. ReplayEvent(r, e) = Blank
      BY <1>13, <2>1, <2>2 DEF ReplayEvent
    <3> QED BY <1>8, <2>0, <2>2, <3>1, NothingIsClose DEF Agrees, Blank, Flat
  <2>3. CASE n # h
    <3>1. ReplayEvent(r, e) = [r EXCEPT !.shares = h - n, !.phase = "REDUCE"]
      BY <1>2, <1>4, <1>5, <1>13, <2>1, <2>3 DEF ReplayEvent
    <3>2. ReplayEvent(r, e) = [ok |-> r.ok, shares |-> h - n, cost |-> r.cost, open |-> r.open,
                               phase |-> "REDUCE"]
      BY <3>1 DEF Replayed
    <3>3. Close(pos[s].cost, r.cost, k + 1)
      BY <1>5, <2>0, <2>1, CloseLater
    <3> QED BY <1>8, <2>1, <2>3, <3>2, <3>3 DEF Agrees
  <2> QED BY <2>2, <2>3
<1>15. InOrderIsReplay'
  <2>1. InOrderIsReplay
    BY DEF BooksInv
  <2> QED BY <1>3, <1>4, <1>7, <1>8, <1>12, <1>13, <1>14, <2>1, NewEventKeepsReplay
<1> QED BY <1>10, <1>11, <1>15 DEF BooksInv

(* record_fund_flow, DIVIDEND, before or after the position was closed.    *)
LEMMA DividendKeepsBooks ==
  ASSUME LedgerAssumption, Inv, LinkedRows, BooksInv, Tables', NEW s \in Stocks,
         NEW a \in Dividends, NEW d \in Days, NEW k \in Keys \cup {NoKey}, RecordDividend(s, a, d, k)
  PROVE  BooksInv'
<1> DEFINE f == Flow("DIVIDEND", a, d, s, 0, k)
           e == AppendedDividend(flows, f)
           h == pos[s].shares
           y == LessDividend(h, Exactly(pos[s].cost), a)
           c == Stored(y)
<1>1. flows \in Seq(FlowRow)
  BY DEF Inv, Tables
<1>2. a \in Nat /\ Scale \in Nat
  BY DEF LedgerAssumption
<1>3. /\ f \in FlowRow /\ f.void = FALSE /\ f.type = "DIVIDEND" /\ f.stock = s /\ f.day = d
      /\ f.amount = a
  BY <1>2 DEF Flow, FlowRow, FlowTypes
<1>4. /\ flows' = Append(flows, f) /\ UNCHANGED trades
      /\ pos' = IF h > 0 THEN [pos EXCEPT ![s].cost = c] ELSE pos
  BY DEF RecordDividend, Held
<1>5. /\ pos[s] \in Row /\ pos \in [Stocks -> Row] /\ IsRow(pos[s])
      /\ h \in Nat /\ pos[s].cost \in Int
  BY DEF BooksInv, IsRow, Row
<1>6. h > 0 => c \in Int
  <2> SUFFICES ASSUME h > 0 PROVE c \in Int
    OBVIOUS
  <2>1. h \in Nat \ {0} /\ a \in Int
    BY <1>2, <1>5
  <2>2. y \in Fraction
    BY <1>5, <2>1, ExactlyIs, LessIsFraction
  <2> QED BY <2>2, StoredIsClose
<1> HIDE DEF f, h, y, c
<1>7. \A x \in Stocks : x # s => pos'[x] = pos[x]
  BY <1>4, <1>5
<1>8. pos'[s] = IF h > 0 THEN [shares |-> h, cost |-> c, open |-> pos[s].open,
                               phase |-> pos[s].phase, value |-> pos[s].value]
                         ELSE pos[s]
  <2>1. CASE h > 0
    <3>1. pos'[s] = [pos[s] EXCEPT !.cost = c]
      BY <1>4, <1>5, <2>1
    <3> QED BY <1>5, <2>1, <3>1 DEF Row, h
  <2>2. CASE ~(h > 0)
    BY <1>4, <2>2
  <2> QED BY <2>1, <2>2
<1>9. IsRow(pos'[s]) /\ pos'[s].shares = h
  <2>1. CASE h > 0
    <3>1. pos'[s] \in Row
      BY <1>5, <1>6, <1>8, <2>1 DEF Row, h
    <3>2. pos'[s].shares = h /\ pos'[s].open = pos[s].open
      BY <1>8, <2>1
    <3> QED BY <1>5, <2>1, <3>1, <3>2 DEF IsRow, h
  <2>2. CASE ~(h > 0)
    BY <1>5, <1>8, <2>2 DEF h
  <2> QED BY <2>1, <2>2
<1>10. pos' \in [Stocks -> Row] /\ \A x \in Stocks : IsRow(pos'[x])
  <2>1. \A x \in Stocks : IsRow(pos'[x])
    BY <1>7, <1>9 DEF BooksInv
  <2>2. DOMAIN pos' = Stocks /\ pos' = [x \in DOMAIN pos' |-> pos'[x]]
    BY <1>4, <1>5
  <2> QED BY <2>1, <2>2 DEF IsRow
<1>11. \A x \in Stocks : pos'[x].shares = Net(x, trades')
  BY <1>4, <1>7, <1>9 DEF BooksInv, h
<1>12. /\ \A x : x # s => GatherReplayEvents(x, trades', flows') = GatherReplayEvents(x, trades, flows)
       /\ e \notin GatherReplayEvents(s, trades, flows)
       /\ GatherReplayEvents(s, trades', flows') = GatherReplayEvents(s, trades, flows) \cup {e}
  <2>1. OneMoreRow(flows', flows, f)
    BY <1>1, <1>3, <1>4, AppendsOneRow
  <2>2. /\ \A x : x # s => GatherReplayEvents(x, trades, flows') = GatherReplayEvents(x, trades, flows)
        /\ e \notin GatherReplayEvents(s, trades, flows)
        /\ GatherReplayEvents(s, trades, flows') = GatherReplayEvents(s, trades, flows) \cup {e}
    BY <1>3, <2>1, EventsOfAppendedFlow DEF Inv
  <2> QED BY <1>4, <2>2
<1>13. e.day = d /\ e.kind = "DIVIDEND" /\ e.amount = a
  BY <1>3 DEF AppendedDividend
<1> HIDE DEF e
<1>14. ASSUME NEW r \in Replayed, NEW n \in Nat, Agrees(pos[s], r, n)
       PROVE  Agrees(pos'[s], ReplayEvent(r, e), n + 1)
  <2>1. /\ r.ok = TRUE /\ r.shares = h /\ r.open = pos[s].open
        /\ r.cost \in Fraction /\ Close(pos[s].cost, r.cost, n)
    BY <1>14 DEF Agrees, Replayed, h
  <2>0. n + 1 \in Nat /\ n <= n + 1
    OBVIOUS
  <2>2. CASE h > 0
    <3> DEFINE z == LessDividend(h, r.cost, a)
    <3>1. ReplayEvent(r, e) = [r EXCEPT !.cost = z]
      BY <1>13, <2>1, <2>2 DEF ReplayEvent
    <3>3. Close(c, z, n + 1)
      <4>1. h \in Nat \ {0} /\ a \in Int
        BY <1>2, <1>5, <2>2
      <4> QED BY <1>5, <2>1, <4>1, CloseLess DEF c, y
    <3> HIDE DEF z
    <3>2. ReplayEvent(r, e) = [ok |-> r.ok, shares |-> r.shares, cost |-> z,
                               open |-> r.open, phase |-> r.phase]
      BY <3>1 DEF Replayed
    <3> QED BY <1>8, <2>1, <2>2, <3>2, <3>3 DEF Agrees
  <2>3. CASE ~(h > 0)
    <3>1. ReplayEvent(r, e) = r /\ pos'[s] = pos[s]
      BY <1>8, <1>13, <2>1, <2>3 DEF ReplayEvent
    <3>2. Close(pos[s].cost, r.cost, n + 1)
      BY <1>5, <2>0, <2>1, CloseLater
    <3> QED BY <1>14, <3>1, <3>2 DEF Agrees
  <2> QED BY <2>2, <2>3
<1>15. InOrderIsReplay'
  <2>1. InOrderIsReplay
    BY DEF BooksInv
  <2> QED BY <1>3, <1>4, <1>7, <1>12, <1>13, <1>14, <2>1, NewEventKeepsReplay
<1> QED BY <1>10, <1>11, <1>15 DEF BooksInv

(* A deposit or a withdrawal is no event of any stock.                     *)
LEMMA MoneyKeepsBooks ==
  ASSUME LedgerAssumption, Inv, BooksInv, NEW f \in FlowRow, f.void = FALSE,
         f.type # "DIVIDEND", flows' = Append(flows, f), UNCHANGED <<trades, pos>>
  PROVE  BooksInv'
<1>1. flows \in Seq(FlowRow)
  BY DEF Inv, Tables
<1>2. OneMoreRow(flows', flows, f)
  BY <1>1, AppendsOneRow
<1>3. \A x : GatherReplayEvents(x, trades, flows') = GatherReplayEvents(x, trades, flows)
  BY <1>2, EventsOfAppendedFlow DEF Inv
<1>4. InOrderIsReplay'
  <2>1. ASSUME NEW x \in Stocks, InOrder(x)' PROVE IsReplay(x)'
    <3>1. InOrder(x)
      BY <2>1, InOrderBefore
    <3> QED BY <1>3, <3>1, ReplayKept DEF BooksInv, InOrderIsReplay
  <2> QED BY <2>1 DEF InOrderIsReplay
<1> QED BY <1>4 DEF BooksInv

(* A rebuilt position is what the replay found.                            *)
LEMMA RebuildKeepsBooks ==
  ASSUME LedgerAssumption, BooksInv, Tables', NEW s \in Stocks, NEW p,
         p = ReplayPosition(s, trades', flows'), p.ok, pos' = Rebuilt(s, p),
         \A x \in Stocks : x # s =>
             GatherReplayEvents(x, trades', flows') = GatherReplayEvents(x, trades, flows),
         \A x \in Stocks : x # s => Net(x, trades') = Net(x, trades),
         \A x \in Stocks : InOrder(x)' => InOrder(x)
  PROVE  BooksInv'
<1>1. IsPosition(p) /\ p.shares = Net(s, trades')
  BY ReplayShares DEF Tables
<1> DEFINE row == IF p.shares = 0 THEN Flat ELSE AsRow(p)
<1>2. pos \in [Stocks -> Row] /\ pos' = [pos EXCEPT ![s] = row]
  BY DEF BooksInv, Rebuilt
<1>3. /\ p.shares \in Nat /\ p.cost \in Fraction /\ p.open \in Days \cup {0}
      /\ p.phase \in Phases
      /\ p.shares > 0 <=> p.open # 0
      /\ p.shares = 0 => p.cost = Exactly(0)
  BY <1>1 DEF IsPosition, Replayed
<1> DEFINE k == Cardinality(GatherReplayEvents(s, trades', flows'))
<1>0. k \in Nat /\ (k = 0 => p.shares = 0)
  <2> DEFINE S == GatherReplayEvents(s, trades', flows')
  <2>1. IsFiniteSet(S)
    BY EventsAreOrdered DEF Tables, IsEventSet
  <2>2. S = {} => p = Blank
    <3>1. p = ReplayOf(S)
      BY ReplayUnfold
    <3> HIDE DEF S
    <3> QED BY <3>1, ReplayOfNone
  <2> HIDE DEF S
  <2> QED BY <2>1, <2>2, FS_CardinalityType, FS_EmptySet DEF S, Blank
<1> HIDE DEF k
<1>4. IsRow(row) /\ row.shares = p.shares /\ row.open = p.open /\ Close(row.cost, p.cost, k)
  <2>1. CASE p.shares = 0
    <3>1. row = Flat /\ Close(Flat.cost, p.cost, k)
      BY <1>0, <1>3, <2>1, NothingIsClose DEF Flat
    <3>2. IsRow(Flat) /\ Flat.shares = 0 /\ Flat.open = 0
      BY DEF IsRow, Row, Flat, Phases
    <3> QED BY <1>3, <2>1, <3>1, <3>2
  <2>2. CASE p.shares # 0
    <3>1. Stored(p.cost) \in Int /\ Close(Stored(p.cost), p.cost, 1)
      BY <1>3, StoredIsClose
    <3>2. Close(Stored(p.cost), p.cost, k)
      BY <1>0, <1>3, <2>2, <3>1, CloseLater
    <3> QED BY <1>3, <2>2, <3>1, <3>2 DEF IsRow, Row, AsRow
  <2> QED BY <2>1, <2>2
<1> HIDE DEF row
<1>5. pos'[s] = row /\ \A x \in Stocks : x # s => pos'[x] = pos[x]
  BY <1>2
<1>6. pos' \in [Stocks -> Row] /\ \A x \in Stocks : IsRow(pos'[x])
  <2>1. \A x \in Stocks : IsRow(pos'[x])
    BY <1>4, <1>5 DEF BooksInv
  <2> QED BY <1>2, <1>4, <2>1 DEF IsRow
<1>7. \A x \in Stocks : pos'[x].shares = Net(x, trades')
  BY <1>1, <1>4, <1>5 DEF BooksInv
<1>8. InOrderIsReplay'
  <2>1. IsReplay(s)'
    BY <1>4, <1>5 DEF IsReplay, k
  <2>2. ASSUME NEW x \in Stocks, x # s, InOrder(x)' PROVE IsReplay(x)'
    BY <1>5, <2>2, ReplayKept DEF BooksInv, InOrderIsReplay
  <2> QED BY <2>1, <2>2 DEF InOrderIsReplay
<1> QED BY <1>6, <1>7, <1>8 DEF BooksInv

(* void_trade: the position of its stock is rebuilt, the others keep       *)
(* their events.                                                           *)
LEMMA VoidTradeKeepsBooks ==
  ASSUME LedgerAssumption, Inv, LinkedRows, BooksInv, Tables',
         NEW t \in DOMAIN trades, VoidTrade(t)
  PROVE  BooksInv'
<1> DEFINE s == trades[t].stock
           tr == [trades EXCEPT ![t].void = TRUE]
           I == TradeFlows(t)
           p == ReplayPosition(s, tr, flows)
<1>1. /\ trades' = tr /\ flows' = VoidFlows(I) /\ p.ok /\ pos' = Rebuilt(s, p)
      /\ ~trades[t].void
  BY DEF VoidTrade
<1>2. Tables
  BY DEF Inv
<1>15. s \in Stocks /\ t # 0
  <2>1. trades[t] \in Trade
    BY <1>2, Rows
  <2>2. trades \in Seq(Trade)
    BY <1>2 DEF Tables
  <2> QED BY <2>1, <2>2 DEF Trade
<1>3. I \in SUBSET DOMAIN flows /\ \A i \in I : flows[i].type # "DIVIDEND"
  BY <1>15 DEF TradeFlows, LinkedRows
<1> HIDE DEF I
<1>4. /\ trades' \in Seq(Trade) /\ DOMAIN trades' = DOMAIN trades
      /\ \A u \in DOMAIN trades :
           /\ trades'[u].stock = trades[u].stock /\ trades'[u].type = trades[u].type
           /\ trades'[u].day = trades[u].day /\ trades'[u].price = trades[u].price
           /\ trades'[u].shares = trades[u].shares
      /\ \A u \in DOMAIN trades : trades'[u].void <=> u = t \/ trades[u].void
  BY <1>1, <1>2, VoidedTrade
<1>5. /\ DOMAIN flows' = DOMAIN flows
      /\ \A i \in DOMAIN flows :
           /\ flows'[i].stock = flows[i].stock
           /\ flows'[i].type = flows[i].type /\ flows'[i].day = flows[i].day
           /\ flows'[i].amount = flows[i].amount
      /\ \A i \in DOMAIN flows : flows'[i].void <=> i \in I \/ flows[i].void
  <2>1. flows' = VoidFlows(I)
    BY <1>1
  <2> HIDE DEF tr, p, s
  <2> QED BY <2>1, <1>2, <1>3, VoidedFlowRows
<1> HIDE DEF tr
<1>6. \A x : DividendsOfStock(x, flows') = DividendsOfStock(x, flows)
  BY <1>3, <1>5 DEF DividendsOfStock
<1>7. \A x : \A i \in DividendsOfStock(x, flows) :
          flows'[i].day = flows[i].day /\ flows'[i].amount = flows[i].amount
  BY <1>5 DEF DividendsOfStock
<1>8. \A x : GatherReplayEvents(x, trades', flows') = GatherReplayEvents(x, trades', flows)
  BY <1>6, <1>7, EventsKept
<1>9. \A x : x # s => TradesOfStock(x, trades') = TradesOfStock(x, trades)
  BY <1>4 DEF TradesOfStock
<1>10. \A x : \A u \in TradesOfStock(x, trades) :
          /\ trades'[u].type = trades[u].type /\ trades'[u].day = trades[u].day
          /\ trades'[u].shares = trades[u].shares /\ trades'[u].price = trades[u].price
  BY <1>4 DEF TradesOfStock
<1>11. \A x : x # s => GatherReplayEvents(x, trades', flows) = GatherReplayEvents(x, trades, flows)
  BY <1>9, <1>10, EventsKept
<1>12. \A x \in Stocks : x # s => Net(x, trades') = Net(x, trades)
  BY <1>2, <1>4, NetVoid
<1>13. p = ReplayPosition(s, trades', flows')
  BY <1>1, <1>8, ReplayUnfold
<1>14. \A x \in Stocks : InOrder(x)' => InOrder(x)
  BY <1>1, <1>2, <1>3, InOrderVoided
<1> HIDE DEF p, s
<1> QED BY <1>1, <1>15, <1>8, <1>11, <1>12, <1>13, <1>14, RebuildKeepsBooks

(* void_fund_flow: a dividend has its stock rebuilt, other flows are no    *)
(* events.                                                                 *)
LEMMA VoidFundFlowKeepsBooks ==
  ASSUME LedgerAssumption, Inv, LinkedRows, BooksInv, Tables',
         NEW i \in DOMAIN flows, VoidFundFlow(i)
  PROVE  BooksInv'
<1> DEFINE s == flows[i].stock
           I == {i}
           p == ReplayPosition(s, trades, VoidFlows({i}))
<1>1. /\ UNCHANGED trades /\ flows' = VoidFlows(I)
      /\ flows[i].type = "DIVIDEND" => p.ok
      /\ pos' = IF flows[i].type = "DIVIDEND" THEN Rebuilt(s, p) ELSE pos
  BY DEF VoidFundFlow
<1>2. Tables /\ I \in SUBSET DOMAIN flows
  BY DEF Inv
<1>3. p = ReplayPosition(s, trades', flows')
  BY <1>1
<1> HIDE DEF p, I
<1>5. /\ DOMAIN flows' = DOMAIN flows
      /\ \A j \in DOMAIN flows :
           /\ flows'[j].stock = flows[j].stock
           /\ flows'[j].type = flows[j].type /\ flows'[j].day = flows[j].day
           /\ flows'[j].amount = flows[j].amount
      /\ \A j \in DOMAIN flows : flows'[j].void <=> j \in I \/ flows[j].void
  BY <1>1, <1>2, VoidedFlowRows
<1>6. \A x : x # s \/ flows[i].type # "DIVIDEND" =>
          DividendsOfStock(x, flows') = DividendsOfStock(x, flows)
  BY <1>5 DEF DividendsOfStock, I
<1>7. \A x : \A j \in DividendsOfStock(x, flows) :
          flows'[j].day = flows[j].day /\ flows'[j].amount = flows[j].amount
  BY <1>5 DEF DividendsOfStock
<1>8. \A x : x # s \/ flows[i].type # "DIVIDEND" =>
          GatherReplayEvents(x, trades', flows') = GatherReplayEvents(x, trades, flows)
  BY <1>1, <1>6, <1>7, EventsKept
<1>9. \A x \in Stocks : InOrder(x)' => InOrder(x)
  BY <1>1, <1>2, InOrderVoided
<1>10. CASE flows[i].type = "DIVIDEND"
  <2>1. s \in Stocks
    BY <1>10 DEF LinkedRows
  <2>2. p.ok /\ pos' = Rebuilt(s, p)
    BY <1>1, <1>10
  <2>3. \A x \in Stocks : Net(x, trades') = Net(x, trades)
    BY <1>1
  <2> HIDE DEF s
  <2> QED BY <1>3, <1>8, <1>9, <2>1, <2>2, <2>3, RebuildKeepsBooks
<1>11. CASE flows[i].type # "DIVIDEND"
  <2>1. pos' = pos /\ \A x : GatherReplayEvents(x, trades', flows') = GatherReplayEvents(x, trades, flows)
    BY <1>1, <1>8, <1>11
  <2>2. InOrderIsReplay'
    <3>1. ASSUME NEW x \in Stocks, InOrder(x)' PROVE IsReplay(x)'
      BY <1>9, <2>1, <3>1, ReplayKept DEF BooksInv, InOrderIsReplay
    <3> QED BY <3>1 DEF InOrderIsReplay
  <2> QED BY <1>1, <2>1, <2>2 DEF BooksInv
<1> QED BY <1>10, <1>11

(* Prices and phases are not part of the books.                            *)
LEMMA PricingKeepsBooks ==
  ASSUME BooksInv, UNCHANGED <<trades, flows>>, pos' \in [Stocks -> Row],
         \A x \in Stocks :
             \/ pos'[x] = pos[x]
             \/ /\ pos[x].shares > 0 /\ pos'[x].shares = pos[x].shares
                /\ pos'[x].cost = pos[x].cost /\ pos'[x].open = pos[x].open
  PROVE  BooksInv'
<1>1. \A x \in Stocks : IsRow(pos'[x])
  <2> SUFFICES ASSUME NEW x \in Stocks, pos'[x] # pos[x] PROVE IsRow(pos'[x])
    BY DEF BooksInv
  <2>1. IsRow(pos[x]) /\ pos'[x] \in Row /\ pos[x].shares \in Nat
    BY DEF BooksInv, IsRow, Row
  <2> QED BY <2>1 DEF IsRow
<1>2. \A x \in Stocks : /\ pos'[x].shares = pos[x].shares
                        /\ pos'[x].cost = pos[x].cost /\ pos'[x].open = pos[x].open
  OBVIOUS
<1>3. \A x \in Stocks : pos'[x].shares = Net(x, trades')
  BY <1>2 DEF BooksInv
<1>4. \A x \in Stocks : (InOrder(x)' <=> InOrder(x)) /\ (IsReplay(x)' <=> IsReplay(x))
  BY <1>2 DEF InOrder, IsReplay
<1> QED BY <1>1, <1>3, <1>4 DEF BooksInv, InOrderIsReplay

(* sync_account and mark_to_market write the value column only.            *)
LEMMA PricedRows ==
  ASSUME LedgerAssumption, BooksInv, NEW q \in Quotes, UNCHANGED <<trades, flows>>, pos' = Priced(q)
  PROVE  BooksInv'
<1>1. \A x \in Stocks : q[x] \in Nat /\ pos[x] \in Row /\ pos[x].shares \in Nat
  <2>1. \A x \in Stocks : pos[x] \in Row
    BY DEF BooksInv
  <2>2. \A x \in Stocks : q[x] \in Closes \cup {0}
    BY DEF Quotes
  <2>3. \A c \in Closes \cup {0} : c \in Nat
    <3>1. Closes \subseteq Nat
      BY DEF LedgerAssumption
    <3> QED BY <3>1
  <2>4. \A x \in Stocks : q[x] \in Nat
    <3> SUFFICES ASSUME NEW x \in Stocks PROVE q[x] \in Nat
      OBVIOUS
    <3>1. q[x] \in Closes \cup {0}
      BY <2>2
    <3> HIDE DEF Quotes
    <3> QED BY <2>3, <3>1
  <2>5. \A x \in Stocks : pos[x].shares \in Nat
    BY <2>1 DEF Row
  <2> QED BY <2>1, <2>4, <2>5
<1>2. ASSUME NEW x \in Stocks
      PROVE  /\ pos'[x] \in Row
             /\ \/ pos'[x] = pos[x]
                \/ /\ pos[x].shares > 0 /\ pos'[x].shares = pos[x].shares
                   /\ pos'[x].cost = pos[x].cost /\ pos'[x].open = pos[x].open
  <2> DEFINE v == q[x] * pos[x].shares
  <2>1. v \in Int
    BY <1>1
  <2>2. pos'[x] = IF Held(x) /\ q[x] # 0 THEN [pos[x] EXCEPT !.value = v] ELSE pos[x]
    BY DEF Priced
  <2> HIDE DEF v
  <2>3. CASE Held(x) /\ q[x] # 0
    <3>1. pos'[x] = [shares |-> pos[x].shares, cost |-> pos[x].cost, open |-> pos[x].open,
                     phase |-> pos[x].phase, value |-> v]
      BY <1>1, <2>2, <2>3 DEF Row
    <3> QED BY <1>1, <2>1, <2>3, <3>1 DEF Row, Held
  <2>4. CASE ~(Held(x) /\ q[x] # 0)
    BY <1>1, <2>2, <2>4
  <2> QED BY <2>3, <2>4
<1>3. pos' \in [Stocks -> Row]
  BY <1>2 DEF Priced
<1> QED BY <1>2, <1>3, PricingKeepsBooks

(* PATCH /positions writes the value and the phase.                        *)
LEMMA UpdateKeepsBooks ==
  ASSUME LedgerAssumption, BooksInv, NEW s \in Stocks, NEW c \in Closes,
         NEW ph \in Phases, UpdatePosition(s, c, ph)
  PROVE  BooksInv'
<1> DEFINE v == c * pos[s].shares
<1>1. pos \in [Stocks -> Row] /\ pos[s] \in Row /\ pos[s].shares \in Nat /\ c \in Nat /\ Held(s)
  BY DEF LedgerAssumption, BooksInv, Row, UpdatePosition
<1>2. v \in Int
  BY <1>1
<1>3. pos' = [pos EXCEPT ![s].value = v, ![s].phase = ph] /\ UNCHANGED <<trades, flows>>
  BY DEF UpdatePosition
<1> HIDE DEF v
<1>4. pos'[s] = [shares |-> pos[s].shares, cost |-> pos[s].cost, open |-> pos[s].open,
                 phase |-> ph, value |-> v]
  BY <1>1, <1>3 DEF Row
<1>5. pos'[s] \in Row
  BY <1>1, <1>2, <1>4 DEF Row
<1>6. \A x \in Stocks : x # s => pos'[x] = pos[x]
  BY <1>1, <1>3
<1>7. pos' \in [Stocks -> Row]
  BY <1>1, <1>3, <1>5, <1>6
<1> QED BY <1>1, <1>3, <1>4, <1>6, <1>7, PricingKeepsBooks DEF Held

(* No rows: nothing is held and nothing is replayed.                       *)
LEMMA BooksInit == LedgerAssumption /\ Init => LinkedRows /\ BooksInv
<1> SUFFICES ASSUME LedgerAssumption, Init PROVE LinkedRows /\ BooksInv
  OBVIOUS
<1>1. trades = <<>> /\ flows = <<>> /\ pos = [s \in Stocks |-> Flat]
  BY DEF Init
<1>2. LinkedRows
  BY <1>1 DEF LinkedRows
<1>3. Flat \in Row /\ IsRow(Flat) /\ Flat.shares = 0 /\ Flat.cost = 0 /\ Flat.open = 0
  BY DEF Row, IsRow, Flat, Phases
<1>4. \A s : GatherReplayEvents(s, trades, flows) = {} /\ Net(s, trades) = 0
  <2>1. \A s : GatherReplayEvents(s, trades, flows) = {}
    BY <1>1 DEF GatherReplayEvents
  <2>2. \A s, k : OfKind(s, trades, k) = {}
    BY <1>1 DEF OfKind
  <2>3. \A s, k : SharesOf(trades, OfKind(s, trades, k)) = 0
    BY <2>2, SumOfNone DEF SharesOf
  <2> QED BY <2>1, <2>3 DEF Net
<1>5. \A s : ReplayPosition(s, trades, flows) = Blank
  BY <1>4, ReplayOfNone, ReplayUnfold
<1>6. InOrderIsReplay
  <2>1. \A s : Cardinality(GatherReplayEvents(s, trades, flows)) \in Nat
    BY <1>4, FS_EmptySet
  <2> QED BY <1>1, <1>3, <1>5, <2>1, NothingIsClose DEF InOrderIsReplay, IsReplay, Blank
<1> QED BY <1>1, <1>2, <1>3, <1>4, <1>6 DEF BooksInv

(* Voiding keeps the links of the rows.                                    *)
LEMMA LinkedVoided ==
  ASSUME Tables, LinkedRows, NEW I \in SUBSET DOMAIN flows, flows' = VoidFlows(I),
         DOMAIN trades' = DOMAIN trades, \A t \in DOMAIN trades : trades'[t].day = trades[t].day
  PROVE  LinkedRows'
<1>1. /\ DOMAIN flows' = DOMAIN flows
      /\ \A i \in DOMAIN flows :
           /\ flows'[i].trade = flows[i].trade /\ flows'[i].stock = flows[i].stock
           /\ flows'[i].type = flows[i].type /\ flows'[i].day = flows[i].day
  BY VoidedFlowRows
<1> QED BY <1>1 DEF LinkedRows

(* Every request keeps the links of the rows.                              *)
LEMMA LinkedStep == LedgerAssumption /\ Inv /\ LinkedRows /\ [Next]_vars => LinkedRows'
<1> SUFFICES ASSUME LedgerAssumption, Inv, LinkedRows, [Next]_vars PROVE LinkedRows'
  OBVIOUS
<1>0. Tables /\ Len(trades) \in Nat /\ trades \in Seq(Trade)
  BY DEF Inv, Tables
<1>1. ASSUME UNCHANGED <<trades, flows>> PROVE LinkedRows'
  BY <1>1 DEF LinkedRows
<1>2. ASSUME NEW s \in Stocks, NEW d \in Days, NEW p \in Prices, NEW n \in Lots,
             RecordTrade(s, d, p, n)
      PROVE  LinkedRows'
  <2> DEFINE t == Len(trades) + 1
             row(k) == [stock |-> s, type |-> k, day |-> d, price |-> p, shares |-> n, void |-> FALSE]
  <2>1. p \in Nat /\ n \in Nat /\ Fee \in Nat /\ Tax \in Nat /\ t \in Nat /\ p * n \in Nat
    <3>1. p \in Nat /\ n \in Nat /\ Fee \in Nat /\ Tax \in Nat
      BY DEF LedgerAssumption
    <3> QED BY <1>0, <3>1
  <2>2. row("BUY") \in Trade /\ row("SELL") \in Trade
        /\ row("BUY").day = d /\ row("SELL").day = d
    BY <2>1 DEF Trade
  <2>3. -(p * n + Fee) \in Int /\ p * n - Fee - Tax \in Int
    BY <2>1
  <2>4. \A k \in {"BUY", "SELL"} : \A a \in Int :
          LET f == Flow(IF k = "BUY" THEN "BUY_FEE" ELSE "SELL_PROCEEDS", a, d, s, t, NoKey)
          IN  f \in FlowRow /\ f.trade = t /\ f.day = d /\ f.type # "DIVIDEND"
    BY <2>1 DEF Flow, FlowRow, FlowTypes
  <2>5. CASE RecordBuy(s, d, p, n)
    <3> DEFINE f == Flow("BUY_FEE", -(p * n + Fee), d, s, t, NoKey)
    <3>1. trades' = Append(trades, row("BUY")) /\ flows' = Append(flows, f)
      BY <2>5 DEF RecordBuy
    <3>2. f \in FlowRow /\ f.trade = t /\ f.day = d /\ f.type # "DIVIDEND"
      BY <2>3, <2>4
    <3> HIDE DEF f, row
    <3> QED BY <2>2, <3>1, <3>2, LinkedAppend
  <2>6. CASE RecordSell(s, d, p, n)
    <3> DEFINE f == Flow("SELL_PROCEEDS", p * n - Fee - Tax, d, s, t, NoKey)
    <3>1. trades' = Append(trades, row("SELL")) /\ flows' = Append(flows, f)
      BY <2>6 DEF RecordSell
    <3>2. f \in FlowRow /\ f.trade = t /\ f.day = d /\ f.type # "DIVIDEND"
      BY <2>3, <2>4
    <3> HIDE DEF f, row
    <3> QED BY <2>2, <3>1, <3>2, LinkedAppend
  <2> QED BY <1>2, <2>5, <2>6 DEF RecordTrade
<1>3. ASSUME NEW a \in Amounts, NEW d \in Days, NEW k \in Keys \cup {NoKey}, Deposit(a, d, k)
      PROVE  LinkedRows'
  <2> DEFINE f == Flow("DEPOSIT", a, d, NoStock, 0, k)
  <2>1. f \in FlowRow /\ f.trade = 0 /\ f.type # "DIVIDEND"
    BY DEF LedgerAssumption, Flow, FlowRow, FlowTypes
  <2>2. flows' = Append(flows, f) /\ UNCHANGED trades
    BY <1>3 DEF Deposit
  <2> HIDE DEF f
  <2> QED BY <2>1, <2>2, LinkedAppend
<1>4. ASSUME NEW a \in Amounts, NEW d \in Days, Withdraw(a, d)
      PROVE  LinkedRows'
  <2> DEFINE f == Flow("WITHDRAW", -a, d, NoStock, 0, NoKey)
  <2>0. a \in Nat /\ -a \in Int
    BY DEF LedgerAssumption
  <2>1. f \in FlowRow /\ f.trade = 0 /\ f.type # "DIVIDEND"
    BY <2>0 DEF Flow, FlowRow, FlowTypes
  <2>2. flows' = Append(flows, f) /\ UNCHANGED trades
    BY <1>4 DEF Withdraw
  <2> HIDE DEF f
  <2> QED BY <2>1, <2>2, LinkedAppend
<1>5. ASSUME NEW s \in Stocks, NEW a \in Dividends, NEW d \in Days,
             NEW k \in Keys \cup {NoKey}, RecordDividend(s, a, d, k)
      PROVE  LinkedRows'
  <2> DEFINE f == Flow("DIVIDEND", a, d, s, 0, k)
  <2>1. f \in FlowRow /\ f.trade = 0 /\ f.stock \in Stocks
    BY DEF LedgerAssumption, Flow, FlowRow, FlowTypes
  <2>2. flows' = Append(flows, f) /\ UNCHANGED trades
    BY <1>5 DEF RecordDividend
  <2> HIDE DEF f
  <2> QED BY <2>1, <2>2, LinkedAppend
<1>6. ASSUME NEW t \in DOMAIN trades, VoidTrade(t)
      PROVE  LinkedRows'
  <2>1. TradeFlows(t) \in SUBSET DOMAIN flows
    BY DEF TradeFlows
  <2>2. flows' = VoidFlows(TradeFlows(t)) /\ trades' = [trades EXCEPT ![t].void = TRUE]
    BY <1>6 DEF VoidTrade
  <2>3. /\ DOMAIN trades' = DOMAIN trades
        /\ \A u \in DOMAIN trades : trades'[u].day = trades[u].day
    BY <1>0, <2>2, VoidedTrade
  <2> QED BY <1>0, <2>1, <2>2, <2>3, LinkedVoided
<1>7. ASSUME NEW i \in DOMAIN flows, VoidFundFlow(i)
      PROVE  LinkedRows'
  <2>1. flows' = VoidFlows({i}) /\ UNCHANGED trades /\ {i} \in SUBSET DOMAIN flows
    BY <1>7 DEF VoidFundFlow
  <2> QED BY <1>0, <2>1, LinkedVoided
<1>8. CASE UNCHANGED vars
  BY <1>1, <1>8 DEF vars
<1>9. ASSUME NEW s \in Stocks, NEW c \in Closes, NEW ph \in Phases, UpdatePosition(s, c, ph)
      PROVE  LinkedRows'
  BY <1>1, <1>9 DEF UpdatePosition
<1>10. ASSUME NEW q \in Quotes, SyncAccount(q)
       PROVE  LinkedRows'
  BY <1>1, <1>10 DEF SyncAccount
<1>11. ASSUME NEW q \in Quotes, NEW others \in BOOLEAN, MarkToMarket(q, others)
       PROVE  LinkedRows'
  BY <1>1, <1>11 DEF MarkToMarket
<1> QED
  BY <1>2, <1>3, <1>4, <1>5, <1>6, <1>7, <1>8, <1>9, <1>10, <1>11 DEF Next

(* Every request keeps the books.                                          *)
LEMMA BooksStep ==
  LedgerAssumption /\ Inv /\ LinkedRows /\ BooksInv /\ Inv' /\ [Next]_vars => BooksInv'
<1> SUFFICES ASSUME LedgerAssumption, Inv, LinkedRows, BooksInv, Inv', [Next]_vars PROVE BooksInv'
  OBVIOUS
<1>0. Tables'
  BY DEF Inv
<1>1. ASSUME NEW s \in Stocks, NEW d \in Days, NEW p \in Prices, NEW n \in Lots,
             RecordTrade(s, d, p, n)
      PROVE  BooksInv'
  BY <1>0, <1>1, BuyKeepsBooks, SellKeepsBooks DEF RecordTrade
<1>2. ASSUME NEW a \in Amounts, NEW d \in Days, NEW k \in Keys \cup {NoKey}, Deposit(a, d, k)
      PROVE  BooksInv'
  <2> DEFINE f == Flow("DEPOSIT", a, d, NoStock, 0, k)
  <2>1. f \in FlowRow /\ f.void = FALSE /\ f.type # "DIVIDEND"
    BY DEF LedgerAssumption, Flow, FlowRow, FlowTypes
  <2>2. flows' = Append(flows, f) /\ UNCHANGED <<trades, pos>>
    BY <1>2 DEF Deposit
  <2> HIDE DEF f
  <2> QED BY <2>1, <2>2, MoneyKeepsBooks
<1>3. ASSUME NEW a \in Amounts, NEW d \in Days, Withdraw(a, d)
      PROVE  BooksInv'
  <2> DEFINE f == Flow("WITHDRAW", -a, d, NoStock, 0, NoKey)
  <2>0. a \in Nat /\ -a \in Int
    BY DEF LedgerAssumption
  <2>1. f \in FlowRow /\ f.void = FALSE /\ f.type # "DIVIDEND"
    BY <2>0 DEF Flow, FlowRow, FlowTypes
  <2>2. flows' = Append(flows, f) /\ UNCHANGED <<trades, pos>>
    BY <1>3 DEF Withdraw
  <2> HIDE DEF f
  <2> QED BY <2>1, <2>2, MoneyKeepsBooks
<1>4. ASSUME NEW s \in Stocks, NEW a \in Dividends, NEW d \in Days,
             NEW k \in Keys \cup {NoKey}, RecordDividend(s, a, d, k)
      PROVE  BooksInv'
  BY <1>0, <1>4, DividendKeepsBooks
<1>5. ASSUME NEW t \in DOMAIN trades, VoidTrade(t) PROVE BooksInv'
  BY <1>0, <1>5, VoidTradeKeepsBooks
<1>6. ASSUME NEW i \in DOMAIN flows, VoidFundFlow(i) PROVE BooksInv'
  BY <1>0, <1>6, VoidFundFlowKeepsBooks
<1>7. ASSUME NEW s \in Stocks, NEW c \in Closes, NEW ph \in Phases, UpdatePosition(s, c, ph)
      PROVE  BooksInv'
  BY <1>7, UpdateKeepsBooks
<1>8. ASSUME NEW q \in Quotes, SyncAccount(q) PROVE BooksInv'
  BY <1>8, PricedRows DEF SyncAccount
<1>9. CASE UNCHANGED <<trades, flows, pos>>
  <2>1. \A x : (InOrder(x)' <=> InOrder(x)) /\ (IsReplay(x)' <=> IsReplay(x))
    BY <1>9 DEF InOrder, IsReplay
  <2> QED BY <1>9, <2>1 DEF BooksInv, InOrderIsReplay
<1>10. ASSUME NEW q \in Quotes, NEW others \in BOOLEAN, MarkToMarket(q, others)
       PROVE  BooksInv'
  BY <1>9, <1>10, PricedRows DEF MarkToMarket
<1>11. CASE UNCHANGED vars
  BY <1>9, <1>11 DEF vars
<1> QED
  BY <1>1, <1>2, <1>3, <1>4, <1>5, <1>6, <1>7, <1>8, <1>10, <1>11 DEF Next

(* The books are right in every state the requests can lead to.            *)
THEOREM BooksAreKept == Spec => [](LinkedRows /\ BooksInv)
<1>1. LedgerAssumption
  BY LedgerAssumption
<1>2. Inv /\ (LinkedRows /\ BooksInv) /\ Inv' /\ [Next]_vars => (LinkedRows /\ BooksInv)'
  BY <1>1, LinkedStep, BooksStep
<1>3. Init => LinkedRows /\ BooksInv
  BY <1>1, BooksInit
<1> QED BY <1>2, <1>3, LedgerInvariance, PTL DEF Spec

(* For any stocks, dates and lots, and any sequence of recording and       *)
(* voiding, the shares of a position are those bought less those sold in   *)
(* the trades that are not voided (record_trade, void_trade).              *)
THEOREM SharesAreSumOfTrades == Spec => []SharesAreLedger
<1>1. BooksInv => SharesAreLedger
  BY DEF BooksInv, SharesAreLedger, Net, SharesOf, OfKind, SharesOfTrade
<1> QED BY <1>1, BooksAreKept, PTL

(* For any stocks, dates, prices and dividends, where the rows of a stock  *)
(* came on one day after another its position is replay_position of the    *)
(* rows that are not voided, however they were voided (void_trade,         *)
(* void_fund_flow, PositionService.rebuild): shares and opening date       *)
(* exactly, the cost up to one rounding for each of those rows.            *)
THEOREM PositionsAreReplays == Spec => []InOrderIsReplay
<1>1. BooksInv => InOrderIsReplay
  BY DEF BooksInv
<1> QED BY <1>1, BooksAreKept, PTL

-----------------------------------------------------------------------------
(* What the reports make of the rows (PerformanceReport).                  *)

(* The amounts paid and received for trades, as sums over the table.       *)
AmountOfTrade(tr) == [t \in DOMAIN tr |-> tr[t].price * tr[t].shares]
AllOfKind(s, tr, type) == {t \in DOMAIN tr : tr[t].stock = s /\ tr[t].type = type}
Paid(s, tr, type) == SumFunctionOnSet(AmountOfTrade(tr), AllOfKind(s, tr, type))
FlowsOfTrades(s, fl) == {i \in DOMAIN fl : fl[i].trade # 0 /\ fl[i].stock = s}
AmountsOf(fl) == [i \in DOMAIN fl |-> fl[i].amount]
Brought(s, fl) == SumFunctionOnSet(AmountsOf(fl), FlowsOfTrades(s, fl))

(* What a stock brought in cash is what its sales brought, less what its   *)
(* purchases cost, less the fees and taxes.                                *)
Settled(s, tr, fl) ==
    Paid(s, tr, "SELL") - Paid(s, tr, "BUY") =
        Brought(s, fl) + Fee * Cardinality(FlowsOfTrades(s, fl))
          + Tax * Cardinality(AllOfKind(s, tr, "SELL"))

(* Only a deposit or a withdrawal is about no stock.                       *)
MoneyHasNoStock ==
    \A i \in DOMAIN flows : flows[i].type \in {"DEPOSIT", "WITHDRAW"} <=> flows[i].stock = NoStock

ProfitInv == MoneyHasNoStock /\ \A s \in Stocks : Settled(s, trades, flows)

(* The sums over a table are integers.                                     *)
LEMMA PaidIsInt ==
  ASSUME LedgerAssumption, NEW tr \in Seq(Trade), NEW s, NEW k
  PROVE  /\ IsFiniteSet(AllOfKind(s, tr, k)) /\ Paid(s, tr, k) \in Int
         /\ Cardinality(AllOfKind(s, tr, k)) \in Nat
         /\ \A t \in DOMAIN tr : AmountOfTrade(tr)[t] \in Int
<1>1. \A t \in DOMAIN tr : AmountOfTrade(tr)[t] \in Int
  <2>1. \A t \in DOMAIN tr : tr[t].price \in Int /\ tr[t].shares \in Int
    BY TradeTable
  <2> QED BY <2>1 DEF AmountOfTrade
<1>2. IsFiniteSet(AllOfKind(s, tr, k))
  <2>1. IsFiniteSet(DOMAIN tr) /\ AllOfKind(s, tr, k) \in SUBSET DOMAIN tr
    BY TradeTable DEF AllOfKind
  <2> QED BY <2>1, FS_Subset
<1>3. \A t \in AllOfKind(s, tr, k) : AmountOfTrade(tr)[t] \in Int
  BY <1>1 DEF AllOfKind
<1> QED BY <1>1, <1>2, <1>3, SumOfInts, FS_CardinalityType DEF Paid

(* A sum over a table with one row more: the row's value, if it counts.    *)
LEMMA PaidOneMore ==
  ASSUME LedgerAssumption, NEW tr \in Seq(Trade), NEW ts \in Seq(Trade), NEW x \in Trade,
         OneMoreRow(ts, tr, x), NEW s, NEW k
  PROVE  IF x.stock = s /\ x.type = k
         THEN /\ Paid(s, ts, k) = Paid(s, tr, k) + x.price * x.shares
              /\ Cardinality(AllOfKind(s, ts, k)) = Cardinality(AllOfKind(s, tr, k)) + 1
         ELSE /\ Paid(s, ts, k) = Paid(s, tr, k)
              /\ Cardinality(AllOfKind(s, ts, k)) = Cardinality(AllOfKind(s, tr, k))
<1> DEFINE m == Len(tr) + 1
           A == AllOfKind(s, tr, k)
<1>1. /\ DOMAIN ts = DOMAIN tr \cup {m} /\ m \notin DOMAIN tr
      /\ ts[m] = x /\ \A u \in DOMAIN tr : ts[u] = tr[u]
  BY DEF OneMoreRow
<1> HIDE DEF m
<1>2. A \in SUBSET DOMAIN tr /\ m \notin A
  BY <1>1 DEF AllOfKind
<1>3. /\ \A t \in A : AmountOfTrade(ts)[t] = AmountOfTrade(tr)[t]
      /\ AmountOfTrade(ts)[m] = x.price * x.shares
  BY <1>1, <1>2 DEF AmountOfTrade
<1>4. IsFiniteSet(A) /\ \A t \in A \cup {m} : AmountOfTrade(ts)[t] \in Int
  BY <1>1, <1>2, PaidIsInt
<1>5. SumFunctionOnSet(AmountOfTrade(ts), A) = Paid(s, tr, k)
  <2> HIDE DEF A
  <2>1. SumFunctionOnSet(AmountOfTrade(ts), A) = SumFunctionOnSet(AmountOfTrade(tr), A)
    BY <1>3, <1>4, SumOfEquals
  <2> QED BY <2>1 DEF Paid, A
<1>6. CASE x.stock = s /\ x.type = k
  <2>1. AllOfKind(s, ts, k) = A \cup {m}
    BY <1>1, <1>6 DEF AllOfKind
  <2> HIDE DEF A
  <2>2. SumFunctionOnSet(AmountOfTrade(ts), A \cup {m})
          = SumFunctionOnSet(AmountOfTrade(ts), A) + AmountOfTrade(ts)[m]
    BY <1>2, <1>4, SumOfOneMore
  <2>3. Cardinality(A \cup {m}) = Cardinality(A) + 1
    BY <1>2, <1>4, FS_AddElement
  <2> QED BY <1>3, <1>5, <1>6, <2>1, <2>2, <2>3 DEF Paid, A
<1>7. CASE ~(x.stock = s /\ x.type = k)
  <2>1. AllOfKind(s, ts, k) = A
    BY <1>1, <1>7 DEF AllOfKind
  <2> QED BY <1>5, <1>7, <2>1 DEF Paid
<1> QED BY <1>6, <1>7

(* The same of the flows that belong to the trades of a stock.             *)
LEMMA BroughtIsInt ==
  ASSUME LedgerAssumption, NEW fl \in Seq(FlowRow), NEW s
  PROVE  /\ IsFiniteSet(FlowsOfTrades(s, fl)) /\ Brought(s, fl) \in Int
         /\ Cardinality(FlowsOfTrades(s, fl)) \in Nat
         /\ IsFiniteSet(DOMAIN fl) /\ \A i \in DOMAIN fl : AmountsOf(fl)[i] \in Int
<1>1. \A i \in DOMAIN fl : AmountsOf(fl)[i] \in Int
  <2>1. \A i \in DOMAIN fl : fl[i] \in FlowRow
    OBVIOUS
  <2> QED BY <2>1 DEF AmountsOf, FlowRow
<1>2. IsFiniteSet(DOMAIN fl)
  <2>1. DOMAIN fl = 1..Len(fl) /\ Len(fl) \in Nat
    OBVIOUS
  <2>2. IsFiniteSet(1..Len(fl))
    BY <2>1, FS_Interval
  <2> QED BY <2>1, <2>2
<1>3. IsFiniteSet(FlowsOfTrades(s, fl))
  <2>1. FlowsOfTrades(s, fl) \in SUBSET DOMAIN fl
    BY DEF FlowsOfTrades
  <2> QED BY <1>2, <2>1, FS_Subset
<1>4. \A i \in FlowsOfTrades(s, fl) : AmountsOf(fl)[i] \in Int
  BY <1>1 DEF FlowsOfTrades
<1> QED BY <1>1, <1>2, <1>3, <1>4, SumOfInts, FS_CardinalityType DEF Brought

(* A flow appended counts if it belongs to a trade of the stock.           *)
LEMMA BroughtOneMore ==
  ASSUME LedgerAssumption, NEW fl \in Seq(FlowRow), NEW fs \in Seq(FlowRow), NEW f \in FlowRow,
         OneMoreRow(fs, fl, f), NEW s
  PROVE  IF f.trade # 0 /\ f.stock = s
         THEN /\ Brought(s, fs) = Brought(s, fl) + f.amount
              /\ Cardinality(FlowsOfTrades(s, fs)) = Cardinality(FlowsOfTrades(s, fl)) + 1
         ELSE /\ Brought(s, fs) = Brought(s, fl)
              /\ Cardinality(FlowsOfTrades(s, fs)) = Cardinality(FlowsOfTrades(s, fl))
<1> DEFINE m == Len(fl) + 1
           A == FlowsOfTrades(s, fl)
<1>1. /\ DOMAIN fs = DOMAIN fl \cup {m} /\ m \notin DOMAIN fl
      /\ fs[m] = f /\ \A u \in DOMAIN fl : fs[u] = fl[u]
  BY DEF OneMoreRow
<1> HIDE DEF m
<1>2. A \in SUBSET DOMAIN fl /\ m \notin A
  BY <1>1 DEF FlowsOfTrades
<1>3. /\ \A i \in A : AmountsOf(fs)[i] = AmountsOf(fl)[i]
      /\ AmountsOf(fs)[m] = f.amount
  BY <1>1, <1>2 DEF AmountsOf
<1>4. IsFiniteSet(A) /\ \A i \in A \cup {m} : AmountsOf(fs)[i] \in Int
  BY <1>1, <1>2, BroughtIsInt
<1>5. SumFunctionOnSet(AmountsOf(fs), A) = Brought(s, fl)
  <2> HIDE DEF A
  <2>1. SumFunctionOnSet(AmountsOf(fs), A) = SumFunctionOnSet(AmountsOf(fl), A)
    BY <1>3, <1>4, SumOfEquals
  <2> QED BY <2>1 DEF Brought, A
<1>6. CASE f.trade # 0 /\ f.stock = s
  <2>1. FlowsOfTrades(s, fs) = A \cup {m}
    BY <1>1, <1>6 DEF FlowsOfTrades
  <2> HIDE DEF A
  <2>2. SumFunctionOnSet(AmountsOf(fs), A \cup {m})
          = SumFunctionOnSet(AmountsOf(fs), A) + AmountsOf(fs)[m]
    BY <1>2, <1>4, SumOfOneMore
  <2>3. Cardinality(A \cup {m}) = Cardinality(A) + 1
    BY <1>2, <1>4, FS_AddElement
  <2> QED BY <1>3, <1>5, <1>6, <2>1, <2>2, <2>3 DEF Brought, A
<1>7. CASE ~(f.trade # 0 /\ f.stock = s)
  <2>1. FlowsOfTrades(s, fs) = A
    BY <1>1, <1>7 DEF FlowsOfTrades
  <2> QED BY <1>5, <1>7, <2>1 DEF Brought
<1> QED BY <1>6, <1>7

(* A trade settles with the flow that is written with it.                  *)
LEMMA TradeSettles ==
  ASSUME LedgerAssumption, Tables, Tables', NEW x \in Trade, NEW f \in FlowRow,
         OneMoreRow(trades', trades, x), OneMoreRow(flows', flows, f),
         f.trade # 0, f.stock = x.stock,
         x.type = "BUY" => f.amount = -(x.price * x.shares + Fee),
         x.type = "SELL" => f.amount = x.price * x.shares - Fee - Tax,
         NEW s, Settled(s, trades, flows)
  PROVE  Settled(s, trades', flows')
<1>1. /\ trades \in Seq(Trade) /\ trades' \in Seq(Trade)
      /\ flows \in Seq(FlowRow) /\ flows' \in Seq(FlowRow)
  BY DEF Tables
<1>2. Fee \in Int /\ Tax \in Int /\ x.price * x.shares \in Int /\ x.type \in {"BUY", "SELL"}
  <2>1. x.price \in Prices /\ x.shares \in Lots /\ x.type \in {"BUY", "SELL"}
    BY DEF Trade
  <2>2. (\A v \in Prices : v \in Int) /\ (\A v \in Lots : v \in Int) /\ Fee \in Int /\ Tax \in Int
    BY DEF LedgerAssumption
  <2>3. x.price \in Int /\ x.shares \in Int
    BY <2>1, <2>2, Zenon
  <2>4. x.price * x.shares \in Int
    BY <2>3
  <2> QED BY <2>1, <2>2, <2>4
<1> DEFINE a == x.price * x.shares
           b == Paid(s, trades, "BUY")
           c == Paid(s, trades, "SELL")
           r == Brought(s, flows)
           n == Cardinality(FlowsOfTrades(s, flows))
           k == Cardinality(AllOfKind(s, trades, "SELL"))
<1>3. a \in Int /\ b \in Int /\ c \in Int /\ r \in Int /\ n \in Int /\ k \in Int
  <2>1. b \in Int /\ c \in Int /\ k \in Nat
    BY <1>1, PaidIsInt
  <2>2. r \in Int /\ n \in Nat
    BY <1>1, BroughtIsInt
  <2> HIDE DEF b, c, r, n, k
  <2> QED BY <1>2, <2>1, <2>2
<1>4. c - b = r + Fee * n + Tax * k
  BY DEF Settled
<1>5. CASE x.stock # s
  <2>1. /\ Paid(s, trades', "BUY") = b /\ Paid(s, trades', "SELL") = c
        /\ Cardinality(AllOfKind(s, trades', "SELL")) = k
    BY <1>1, <1>5, PaidOneMore
  <2>2. Brought(s, flows') = r /\ Cardinality(FlowsOfTrades(s, flows')) = n
    BY <1>1, <1>5, BroughtOneMore
  <2> QED BY <1>4, <2>1, <2>2 DEF Settled
<1>6. CASE x.stock = s /\ x.type = "BUY"
  <2>1. /\ Paid(s, trades', "BUY") = b + a /\ Paid(s, trades', "SELL") = c
        /\ Cardinality(AllOfKind(s, trades', "SELL")) = k
    BY <1>1, <1>6, PaidOneMore
  <2>2. /\ Brought(s, flows') = r + f.amount /\ f.amount = -(a + Fee)
        /\ Cardinality(FlowsOfTrades(s, flows')) = n + 1
    BY <1>1, <1>6, BroughtOneMore
  <2> HIDE DEF a, b, c, r, n, k
  <2>3. Fee * (n + 1) = Fee * n + Fee
    BY <1>2, <1>3
  <2>4. Fee * n \in Int /\ Tax * k \in Int
    BY <1>2, <1>3
  <2>5. c - (b + a) = (r + (-(a + Fee))) + Fee * (n + 1) + Tax * k
    BY <1>2, <1>3, <1>4, <2>3, <2>4
  <2> QED BY <2>1, <2>2, <2>5 DEF Settled
<1>7. CASE x.stock = s /\ x.type = "SELL"
  <2>1. /\ Paid(s, trades', "BUY") = b /\ Paid(s, trades', "SELL") = c + a
        /\ Cardinality(AllOfKind(s, trades', "SELL")) = k + 1
    BY <1>1, <1>7, PaidOneMore
  <2>2. /\ Brought(s, flows') = r + f.amount /\ f.amount = a - Fee - Tax
        /\ Cardinality(FlowsOfTrades(s, flows')) = n + 1
    BY <1>1, <1>7, BroughtOneMore
  <2> HIDE DEF a, b, c, r, n, k
  <2>3. Fee * (n + 1) = Fee * n + Fee /\ Tax * (k + 1) = Tax * k + Tax
    BY <1>2, <1>3
  <2>4. Fee * n \in Int /\ Tax * k \in Int
    BY <1>2, <1>3
  <2>5. (c + a) - b = (r + (a - Fee - Tax)) + Fee * (n + 1) + Tax * (k + 1)
    BY <1>2, <1>3, <1>4, <2>3, <2>4
  <2> QED BY <2>1, <2>2, <2>5 DEF Settled
<1> QED BY <1>2, <1>5, <1>6, <1>7

(* A flow of no trade settles nothing.                                     *)
LEMMA MoneySettles ==
  ASSUME LedgerAssumption, Tables, Tables', NEW f \in FlowRow, f.trade = 0,
         OneMoreRow(flows', flows, f), UNCHANGED trades, NEW s, Settled(s, trades, flows)
  PROVE  Settled(s, trades', flows')
<1>1. flows \in Seq(FlowRow) /\ flows' \in Seq(FlowRow)
  BY DEF Tables
<1>2. /\ Brought(s, flows') = Brought(s, flows)
      /\ Cardinality(FlowsOfTrades(s, flows')) = Cardinality(FlowsOfTrades(s, flows))
  BY <1>1, BroughtOneMore
<1> QED BY <1>2 DEF Settled

(* Voiding changes no figure, for the figures do not look at the marks.    *)
LEMMA VoidSettles ==
  ASSUME DOMAIN trades' = DOMAIN trades, DOMAIN flows' = DOMAIN flows,
         \A t \in DOMAIN trades :
             /\ trades'[t].stock = trades[t].stock /\ trades'[t].type = trades[t].type
             /\ trades'[t].price = trades[t].price /\ trades'[t].shares = trades[t].shares,
         \A i \in DOMAIN flows :
             /\ flows'[i].trade = flows[i].trade /\ flows'[i].stock = flows[i].stock
             /\ flows'[i].amount = flows[i].amount,
         NEW s, Settled(s, trades, flows)
  PROVE  Settled(s, trades', flows')
<1>1. AmountOfTrade(trades') = AmountOfTrade(trades) /\ AmountsOf(flows') = AmountsOf(flows)
  BY DEF AmountOfTrade, AmountsOf
<1>2. /\ \A k : AllOfKind(s, trades', k) = AllOfKind(s, trades, k)
      /\ FlowsOfTrades(s, flows') = FlowsOfTrades(s, flows)
  BY DEF AllOfKind, FlowsOfTrades
<1> QED BY <1>1, <1>2 DEF Settled, Paid, Brought

(* No rows: no figures.                                                    *)
LEMMA ProfitInit == Init => ProfitInv
<1> SUFFICES ASSUME Init PROVE ProfitInv
  OBVIOUS
<1>1. DOMAIN trades = {} /\ DOMAIN flows = {}
  BY DEF Init
<1>2. \A s, k : AllOfKind(s, trades, k) = {} /\ FlowsOfTrades(s, flows) = {}
  BY <1>1 DEF AllOfKind, FlowsOfTrades
<1>3. \A s, k : Paid(s, trades, k) = 0 /\ Brought(s, flows) = 0
  BY <1>2, SumOfNone DEF Paid, Brought
<1>4. LedgerAssumption => Fee * 0 = 0 /\ Tax * 0 = 0
  BY DEF LedgerAssumption
<1>5. \A s : Settled(s, trades, flows)
  <2>1. Cardinality({}) = 0
    BY FS_EmptySet
  <2>2. \A s, k : Cardinality(AllOfKind(s, trades, k)) = 0 /\ Cardinality(FlowsOfTrades(s, flows)) = 0
    BY <1>2, <2>1
  <2> QED BY <1>3, <1>4, <2>2, LedgerAssumption DEF Settled
<1> QED BY <1>1, <1>5 DEF ProfitInv, MoneyHasNoStock

(* Every request keeps the figures.                                        *)
LEMMA ProfitStep == LedgerAssumption /\ Inv /\ Inv' /\ ProfitInv /\ [Next]_vars => ProfitInv'
<1> SUFFICES ASSUME LedgerAssumption, Inv, Inv', ProfitInv, [Next]_vars PROVE ProfitInv'
  OBVIOUS
<1>0. /\ Tables /\ Tables' /\ trades \in Seq(Trade) /\ flows \in Seq(FlowRow)
      /\ Len(trades) \in Nat /\ NoStock \notin Stocks
  BY DEF Inv, Tables, LedgerAssumption
<1>1. ASSUME UNCHANGED <<trades, flows>> PROVE ProfitInv'
  <2>1. \A s : Settled(s, trades', flows') <=> Settled(s, trades, flows)
    BY <1>1
  <2> QED BY <1>1, <2>1 DEF ProfitInv, MoneyHasNoStock
<1>2. ASSUME NEW f \in FlowRow, f.type \in {"DEPOSIT", "WITHDRAW"} <=> f.stock = NoStock,
             OneMoreRow(flows', flows, f)
      PROVE  MoneyHasNoStock'
  BY <1>2 DEF OneMoreRow, ProfitInv, MoneyHasNoStock
<1>3. ASSUME NEW f \in FlowRow, f.type \in {"DEPOSIT", "WITHDRAW"} <=> f.stock = NoStock,
             f.trade = 0, flows' = Append(flows, f), UNCHANGED trades
      PROVE  ProfitInv'
  <2>1. OneMoreRow(flows', flows, f)
    BY <1>0, <1>3, AppendsOneRow
  <2>2. \A s \in Stocks : Settled(s, trades', flows')
    BY <1>0, <1>3, <2>1, MoneySettles DEF ProfitInv
  <2> QED BY <1>2, <1>3, <2>1, <2>2 DEF ProfitInv
<1>4. ASSUME NEW x \in Trade, NEW f \in FlowRow,
             trades' = Append(trades, x), flows' = Append(flows, f),
             f.trade = Len(trades) + 1, f.stock = x.stock,
             f.type \in {"BUY_FEE", "SELL_PROCEEDS"},
             x.type = "BUY" => f.amount = -(x.price * x.shares + Fee),
             x.type = "SELL" => f.amount = x.price * x.shares - Fee - Tax
      PROVE  ProfitInv'
  <2>1. OneMoreRow(flows', flows, f) /\ OneMoreRow(trades', trades, x)
    BY <1>0, <1>4, AppendsOneRow
  <2>2. f.trade # 0 /\ f.stock # NoStock
    BY <1>0, <1>4 DEF Trade
  <2>3. \A s \in Stocks : Settled(s, trades', flows')
    <3> SUFFICES ASSUME NEW s \in Stocks PROVE Settled(s, trades', flows')
      OBVIOUS
    <3>1. Settled(s, trades, flows)
      BY DEF ProfitInv
    <3> QED BY <1>0, <1>4, <2>1, <2>2, <3>1, TradeSettles
  <2> QED BY <1>2, <1>4, <2>1, <2>2, <2>3 DEF ProfitInv
<1>5. ASSUME NEW s \in Stocks, NEW d \in Days, NEW p \in Prices, NEW n \in Lots,
             RecordTrade(s, d, p, n)
      PROVE  ProfitInv'
  <2> DEFINE t == Len(trades) + 1
             x(k) == [stock |-> s, type |-> k, day |-> d, price |-> p, shares |-> n, void |-> FALSE]
  <2>1. p \in Nat /\ n \in Nat /\ Fee \in Nat /\ Tax \in Nat /\ t \in Nat
    BY <1>0 DEF LedgerAssumption
  <2>2. -(p * n + Fee) \in Int /\ p * n - Fee - Tax \in Int
    BY <2>1
  <2>3. CASE RecordBuy(s, d, p, n)
    <3> DEFINE f == Flow("BUY_FEE", -(p * n + Fee), d, s, t, NoKey)
               y == x("BUY")
    <3>1. /\ y \in Trade /\ y.stock = s /\ y.type = "BUY" /\ y.price = p /\ y.shares = n
      BY <2>1 DEF Trade
    <3>2. /\ f \in FlowRow /\ f.trade = t /\ f.stock = s /\ f.type = "BUY_FEE"
          /\ f.amount = -(p * n + Fee)
      BY <2>1, <2>2 DEF Flow, FlowRow, FlowTypes
    <3>3. trades' = Append(trades, y) /\ flows' = Append(flows, f)
      BY <2>3 DEF RecordBuy
    <3> HIDE DEF f, y, x
    <3> QED BY <1>4, <3>1, <3>2, <3>3
  <2>4. CASE RecordSell(s, d, p, n)
    <3> DEFINE f == Flow("SELL_PROCEEDS", p * n - Fee - Tax, d, s, t, NoKey)
               y == x("SELL")
    <3>1. /\ y \in Trade /\ y.stock = s /\ y.type = "SELL" /\ y.price = p /\ y.shares = n
      BY <2>1 DEF Trade
    <3>2. /\ f \in FlowRow /\ f.trade = t /\ f.stock = s /\ f.type = "SELL_PROCEEDS"
          /\ f.amount = p * n - Fee - Tax
      BY <2>1, <2>2 DEF Flow, FlowRow, FlowTypes
    <3>3. trades' = Append(trades, y) /\ flows' = Append(flows, f)
      BY <2>4 DEF RecordSell
    <3> HIDE DEF f, y, x
    <3> QED BY <1>4, <3>1, <3>2, <3>3
  <2> QED BY <1>5, <2>3, <2>4 DEF RecordTrade
<1>6. ASSUME NEW a \in Amounts, NEW d \in Days, NEW k \in Keys \cup {NoKey}, Deposit(a, d, k)
      PROVE  ProfitInv'
  <2> DEFINE f == Flow("DEPOSIT", a, d, NoStock, 0, k)
  <2>1. f \in FlowRow /\ f.trade = 0 /\ f.type = "DEPOSIT" /\ f.stock = NoStock
    BY DEF LedgerAssumption, Flow, FlowRow, FlowTypes
  <2>2. flows' = Append(flows, f) /\ UNCHANGED trades
    BY <1>6 DEF Deposit
  <2> HIDE DEF f
  <2> QED BY <1>3, <2>1, <2>2
<1>7. ASSUME NEW a \in Amounts, NEW d \in Days, Withdraw(a, d)
      PROVE  ProfitInv'
  <2> DEFINE f == Flow("WITHDRAW", -a, d, NoStock, 0, NoKey)
  <2>0. a \in Nat /\ -a \in Int
    BY DEF LedgerAssumption
  <2>1. f \in FlowRow /\ f.trade = 0 /\ f.type = "WITHDRAW" /\ f.stock = NoStock
    BY <2>0 DEF Flow, FlowRow, FlowTypes
  <2>2. flows' = Append(flows, f) /\ UNCHANGED trades
    BY <1>7 DEF Withdraw
  <2> HIDE DEF f
  <2> QED BY <1>3, <2>1, <2>2
<1>8. ASSUME NEW s \in Stocks, NEW a \in Dividends, NEW d \in Days,
             NEW k \in Keys \cup {NoKey}, RecordDividend(s, a, d, k)
      PROVE  ProfitInv'
  <2> DEFINE f == Flow("DIVIDEND", a, d, s, 0, k)
  <2>1. f \in FlowRow /\ f.trade = 0 /\ f.type = "DIVIDEND" /\ f.stock = s
    BY DEF LedgerAssumption, Flow, FlowRow, FlowTypes
  <2>2. flows' = Append(flows, f) /\ UNCHANGED trades
    BY <1>8 DEF RecordDividend
  <2> HIDE DEF f
  <2> QED BY <1>0, <1>3, <2>1, <2>2
<1>9. ASSUME NEW I \in SUBSET DOMAIN flows, flows' = VoidFlows(I), DOMAIN trades' = DOMAIN trades,
             \A t \in DOMAIN trades :
                 /\ trades'[t].stock = trades[t].stock /\ trades'[t].type = trades[t].type
                 /\ trades'[t].price = trades[t].price /\ trades'[t].shares = trades[t].shares
      PROVE  ProfitInv'
  <2>1. /\ DOMAIN flows' = DOMAIN flows
        /\ \A i \in DOMAIN flows :
             /\ flows'[i].trade = flows[i].trade /\ flows'[i].stock = flows[i].stock
             /\ flows'[i].type = flows[i].type /\ flows'[i].amount = flows[i].amount
    BY <1>0, <1>9, VoidedFlowRows
  <2>2. \A s \in Stocks : Settled(s, trades', flows')
    BY <1>9, <2>1, VoidSettles DEF ProfitInv
  <2>3. MoneyHasNoStock'
    BY <2>1 DEF ProfitInv, MoneyHasNoStock
  <2> QED BY <2>2, <2>3 DEF ProfitInv
<1>10. ASSUME NEW t \in DOMAIN trades, VoidTrade(t) PROVE ProfitInv'
  <2>1. TradeFlows(t) \in SUBSET DOMAIN flows
    BY DEF TradeFlows
  <2>2. flows' = VoidFlows(TradeFlows(t)) /\ trades' = [trades EXCEPT ![t].void = TRUE]
    BY <1>10 DEF VoidTrade
  <2>3. /\ DOMAIN trades' = DOMAIN trades
        /\ \A u \in DOMAIN trades :
             /\ trades'[u].stock = trades[u].stock /\ trades'[u].type = trades[u].type
             /\ trades'[u].price = trades[u].price /\ trades'[u].shares = trades[u].shares
    BY <1>0, <2>2, VoidedTrade
  <2> QED BY <1>9, <2>1, <2>2, <2>3
<1>11. ASSUME NEW i \in DOMAIN flows, VoidFundFlow(i) PROVE ProfitInv'
  <2>1. flows' = VoidFlows({i}) /\ UNCHANGED trades /\ {i} \in SUBSET DOMAIN flows
    BY <1>11 DEF VoidFundFlow
  <2> QED BY <1>9, <2>1
<1>12. CASE UNCHANGED vars
  BY <1>1, <1>12 DEF vars
<1>13. ASSUME NEW s \in Stocks, NEW c \in Closes, NEW ph \in Phases, UpdatePosition(s, c, ph)
       PROVE  ProfitInv'
  BY <1>1, <1>13 DEF UpdatePosition
<1>14. ASSUME NEW q \in Quotes, SyncAccount(q) PROVE ProfitInv'
  BY <1>1, <1>14 DEF SyncAccount
<1>15. ASSUME NEW q \in Quotes, NEW others \in BOOLEAN, MarkToMarket(q, others) PROVE ProfitInv'
  BY <1>1, <1>15 DEF MarkToMarket
<1> QED
  BY <1>5, <1>6, <1>7, <1>8, <1>10, <1>11, <1>12, <1>13, <1>14, <1>15 DEF Next

-----------------------------------------------------------------------------
(* Holding folds TrackHolding over the trades of a stock.  Here it is with *)
(* the table as a parameter, so that two tables can be compared.           *)
HoldStep(tr, h, t) ==
    IF tr[t].type = "BUY" THEN [h EXCEPT !.open = IF h.open = 0 THEN tr[t].day ELSE h.open]
    ELSE IF h.open = 0 THEN h
    ELSE [open |-> 0, days |-> Append(h.days, tr[t].day - h.open)]
NoHolding == [open |-> 0, days |-> <<>>]
IsLatest(tr, T, t) ==
    \A u \in T : tr[u].day < tr[t].day \/ (tr[u].day = tr[t].day /\ u <= t)
Latest(tr, T) == CHOOSE t \in T : IsLatest(tr, T, t)
Holds(g, tr, D) ==
    g = [T \in D |-> IF T = {} THEN NoHolding ELSE HoldStep(tr, g[T \ {Latest(tr, T)}], Latest(tr, T))]
HoldFcn(tr, S) == CHOOSE g : Holds(g, tr, SUBSET S)
HoldOf(tr, S) == HoldFcn(tr, S)[S]
RowsOf(s, tr) == AllOfKind(s, tr, "BUY") \cup AllOfKind(s, tr, "SELL")

(* Some rows of a table of trades.                                         *)
AreRows(tr, S) ==
    /\ IsFiniteSet(S) /\ S \subseteq Nat
    /\ \A t \in S : tr[t].day \in Nat

(* A set of rows has one latest row, by date and then by key.              *)
LEMMA OneLatest ==
  ASSUME NEW tr, NEW S, AreRows(tr, S), S # {}
  PROVE  /\ Latest(tr, S) \in S /\ IsLatest(tr, S, Latest(tr, S))
         /\ \A t \in S : IsLatest(tr, S, t) => t = Latest(tr, S)
<1> DEFINE f == [t \in S |-> <<tr[t].day, t>>]
           P == {f[t] : t \in S}
<1>1. IsFiniteSet(P)
  <2> HIDE DEF f
  <2> QED BY ImageIsFinite DEF AreRows
<1>2. P \subseteq Int \X Int /\ P # {}
  <2>1. \A t \in S : f[t] \in Int \X Int
    BY DEF AreRows
  <2> HIDE DEF f
  <2> QED BY <2>1
<1>3. \E m \in P : \A x \in P : x[1] < m[1] \/ (x[1] = m[1] /\ x[2] <= m[2])
  <2> HIDE DEF P
  <2> QED BY <1>1, <1>2, LastInDictionary
<1>4. PICK t \in S : \A x \in P : x[1] < f[t][1] \/ (x[1] = f[t][1] /\ x[2] <= f[t][2])
  BY <1>3
<1>5. IsLatest(tr, S, t)
  <2> SUFFICES ASSUME NEW u \in S PROVE tr[u].day < tr[t].day \/ (tr[u].day = tr[t].day /\ u <= t)
    BY DEF IsLatest
  <2>1. f[u] \in P /\ f[u][1] = tr[u].day /\ f[u][2] = u /\ f[t][1] = tr[t].day /\ f[t][2] = t
    OBVIOUS
  <2> HIDE DEF f, P
  <2> QED BY <1>4, <2>1
<1>6. Latest(tr, S) \in S /\ IsLatest(tr, S, Latest(tr, S))
  BY <1>5 DEF Latest
<1>7. \A v, w \in S : IsLatest(tr, S, v) /\ IsLatest(tr, S, w) => v = w
  BY DEF IsLatest, AreRows
<1> QED BY <1>6, <1>7

(* By induction on the number of rows: the fold defines a function.        *)
LEMMA HoldExists ==
  ASSUME NEW tr, NEW S, AreRows(tr, S)
  PROVE  \E g : Holds(g, tr, SUBSET S)
<1> DEFINE L(T) == Latest(tr, T)
           Small(n) == {T \in SUBSET S : Cardinality(T) <= n}
           Has(n) == \E g : Holds(g, tr, Small(n))
           N == {n \in Nat : Has(n)}
<1>1. \A T \in SUBSET S : IsFiniteSet(T) /\ Cardinality(T) \in Nat
  BY FS_Subset, FS_CardinalityType DEF AreRows
<1>2. \A T \in SUBSET S : T # {} => Cardinality(T \ {L(T)}) = Cardinality(T) - 1
  <2> SUFFICES ASSUME NEW T \in SUBSET S, T # {} PROVE Cardinality(T \ {L(T)}) = Cardinality(T) - 1
    OBVIOUS
  <2>1. AreRows(tr, T)
    BY <1>1 DEF AreRows
  <2>2. L(T) \in T
    BY <2>1, OneLatest
  <2> QED BY <1>1, <2>2, FS_RemoveElement
<1>3. 0 \in N
  <2>1. \A T \in Small(0) : T = {}
    BY <1>1, FS_EmptySet
  <2>2. Holds([T \in Small(0) |-> NoHolding], tr, Small(0))
    BY <2>1 DEF Holds
  <2> QED BY <2>2
<1>4. ASSUME NEW n \in Nat, n \in N PROVE n + 1 \in N
  <2>1. PICK g : Holds(g, tr, Small(n))
    BY <1>4
  <2> DEFINE D == Small(n + 1)
             h == [T \in D |-> IF T = {} THEN NoHolding ELSE HoldStep(tr, g[T \ {L(T)}], L(T))]
  <2>2. \A T \in Small(n) : g[T] = IF T = {} THEN NoHolding ELSE HoldStep(tr, g[T \ {L(T)}], L(T))
    BY <2>1 DEF Holds
  <2>3. \A T \in Small(n) : T \in D /\ h[T] = g[T]
    <3>1. \A T \in Small(n) : T \in D
      BY <1>1
    <3>2. \A T \in D : h[T] = IF T = {} THEN NoHolding ELSE HoldStep(tr, g[T \ {L(T)}], L(T))
      OBVIOUS
    <3> HIDE DEF h, D, Small, L
    <3> QED BY <3>1, <3>2, <2>2, Zenon
  <2>4. \A T \in D : T # {} => T \ {L(T)} \in Small(n)
    BY <1>1, <1>2
  <2>5. \A T \in D : h[T] = IF T = {} THEN NoHolding ELSE HoldStep(tr, h[T \ {L(T)}], L(T))
    BY <2>3, <2>4
  <2>6. h = [T \in D |-> h[T]]
    OBVIOUS
  <2>7. Holds(h, tr, D)
    <3> HIDE DEF h, D
    <3>3. [T \in D |-> h[T]] = [T \in D |-> IF T = {} THEN NoHolding
                                            ELSE HoldStep(tr, h[T \ {L(T)}], L(T))]
      BY <2>5
    <3> QED BY <2>6, <3>3 DEF Holds
  <2>8. Has(n + 1)
    <3> HIDE DEF h
    <3> QED BY <2>7
  <2> HIDE DEF Has
  <2> QED BY <2>8
<1>5. Nat \subseteq N
  <2> HIDE DEF N
  <2> QED BY <1>3, <1>4, NatInductionOnSets
<1>6. Cardinality(S) \in Nat /\ Small(Cardinality(S)) = SUBSET S
  BY <1>1, FS_Subset DEF AreRows
<1> QED BY <1>5, <1>6

(* What the function is.                                                   *)
LEMMA HoldUnfold ==
  ASSUME NEW tr, NEW S, AreRows(tr, S)
  PROVE  /\ HoldFcn(tr, S)[{}] = NoHolding
         /\ \A T \in SUBSET S : T # {} =>
              HoldFcn(tr, S)[T] = HoldStep(tr, HoldFcn(tr, S)[T \ {Latest(tr, T)}], Latest(tr, T))
<1>1. Holds(HoldFcn(tr, S), tr, SUBSET S)
  BY HoldExists DEF HoldFcn
<1> QED BY <1>1 DEF Holds

(* The holding of some rows depends on these rows only.                    *)
LEMMA HoldSame ==
  ASSUME NEW tr, NEW ts, NEW S, AreRows(tr, S), NEW T \in SUBSET S,
         \A t \in T : ts[t] = tr[t]
  PROVE  \A U \in SUBSET T : HoldFcn(ts, T)[U] = HoldFcn(tr, S)[U]
<1>1. AreRows(ts, T)
  BY FS_Subset DEF AreRows
<1>2. /\ HoldFcn(tr, S)[{}] = NoHolding /\ HoldFcn(ts, T)[{}] = NoHolding
      /\ \A U \in SUBSET S : U # {} =>
           HoldFcn(tr, S)[U] = HoldStep(tr, HoldFcn(tr, S)[U \ {Latest(tr, U)}], Latest(tr, U))
      /\ \A U \in SUBSET T : U # {} =>
           HoldFcn(ts, T)[U] = HoldStep(ts, HoldFcn(ts, T)[U \ {Latest(ts, U)}], Latest(ts, U))
  BY <1>1, HoldUnfold
<1> DEFINE N == {n \in Nat : \A U \in SUBSET T :
                    Cardinality(U) = n => HoldFcn(ts, T)[U] = HoldFcn(tr, S)[U]}
<1>3. \A U \in SUBSET T : IsFiniteSet(U) /\ Cardinality(U) \in Nat /\ U \in SUBSET S
  BY <1>1, FS_Subset, FS_CardinalityType DEF AreRows
<1>4. 0 \in N
  <2>1. \A U \in SUBSET T : Cardinality(U) = 0 => U = {}
    BY <1>3, FS_EmptySet
  <2> QED BY <2>1, <1>2
<1>5. ASSUME NEW n \in Nat, n \in N PROVE n + 1 \in N
  <2> SUFFICES ASSUME NEW U \in SUBSET T, Cardinality(U) = n + 1
               PROVE  HoldFcn(ts, T)[U] = HoldFcn(tr, S)[U]
    OBVIOUS
  <2>1. U # {} /\ U \in SUBSET S
    BY <1>3, FS_EmptySet
  <2> DEFINE l == Latest(tr, U)
  <2>2. AreRows(tr, U) /\ AreRows(ts, U)
    BY <1>1, <1>3, <2>1 DEF AreRows
  <2>3. l \in U /\ IsLatest(tr, U, l)
    BY <2>1, <2>2, OneLatest
  <2>4. IsLatest(ts, U, l)
    BY <2>3 DEF IsLatest
  <2>5. Latest(ts, U) = l
    <3> HIDE DEF l
    <3> QED BY <2>1, <2>2, <2>3, <2>4, OneLatest
  <2>6. Cardinality(U \ {l}) = Cardinality(U) - 1
    <3> HIDE DEF l
    <3> QED BY <1>3, <2>3, FS_RemoveElement
  <2>7. HoldFcn(ts, T)[U \ {l}] = HoldFcn(tr, S)[U \ {l}]
    <3> HIDE DEF l
    <3>1. Cardinality(U \ {l}) = n /\ U \ {l} \in SUBSET T
      BY <2>6
    <3> QED BY <3>1, <1>5
  <2>8. HoldFcn(ts, T)[U] = HoldStep(ts, HoldFcn(ts, T)[U \ {l}], l)
    BY <1>2, <2>1, <2>5
  <2>9. HoldFcn(tr, S)[U] = HoldStep(tr, HoldFcn(tr, S)[U \ {l}], l)
    BY <1>2, <2>1
  <2>10. ts[l] = tr[l]
    BY <2>3
  <2> HIDE DEF l
  <2> QED BY <2>7, <2>8, <2>9, <2>10 DEF HoldStep
<1>6. Nat \subseteq N
  <2> HIDE DEF N
  <2> QED BY <1>4, <1>5, NatInductionOnSets
<1> QED BY <1>3, <1>6

(* A row later than all others is tracked last.                            *)
LEMMA HoldOneMore ==
  ASSUME NEW tr, NEW ts, NEW S, NEW m, m \notin S, AreRows(ts, S \cup {m}),
         \A t \in S : ts[t] = tr[t] /\ ts[t].day < ts[m].day
  PROVE  HoldOf(ts, S \cup {m}) = HoldStep(ts, HoldOf(tr, S), m)
<1> DEFINE T == S \cup {m}
<1>1. IsLatest(ts, T, m) /\ T # {} /\ m \in T
  BY DEF IsLatest, AreRows
<1>2. Latest(ts, T) = m
  <2> HIDE DEF T
  <2> QED BY <1>1, OneLatest DEF T
<1>3. T \ {m} = S
  OBVIOUS
<1>4. HoldFcn(ts, T)[T] = HoldStep(ts, HoldFcn(ts, T)[S], m)
  <2>1. AreRows(ts, T) /\ T \in SUBSET T
    OBVIOUS
  <2> HIDE DEF T
  <2>2. HoldFcn(ts, T)[T] = HoldStep(ts, HoldFcn(ts, T)[T \ {Latest(ts, T)}], Latest(ts, T))
    BY <1>1, <2>1, HoldUnfold
  <2> QED BY <1>2, <1>3, <2>2
<1>5. HoldFcn(tr, S)[S] = HoldFcn(ts, T)[S]
  BY HoldSame
<1> QED BY <1>4, <1>5 DEF HoldOf

(* Holding is that fold over the rows of the stock.                        *)
LEMMA HoldingIs ==
  ASSUME NEW s
  PROVE  /\ Holding(s) = HoldOf(trades, RowsOf(s, trades))
         /\ Holding(s)' = HoldOf(trades', RowsOf(s, trades'))
BY DEF Holding, MapThenFoldSet, HoldOf, HoldFcn, Holds, HoldStep, NoHolding, Latest, IsLatest,
       TrackHolding, LaterOf, RowsOf, AllOfKind, TradesOf

-----------------------------------------------------------------------------
(* A dividend changes the cost of a position and nothing else of it, so    *)
(* taking one out of a replay changes the cost and nothing else.           *)
SameHolding(p, q) == p.ok = q.ok /\ p.shares = q.shares /\ p.open = q.open

(* Events do to positions of one holding the same.                         *)
LEMMA EventKeepsHolding ==
  ASSUME LedgerAssumption, NEW p, NEW q, IsPosition(p), IsPosition(q), NEW e, IsPlayable(e)
  PROVE  /\ SameHolding(p, q) => SameHolding(ReplayEvent(p, e), ReplayEvent(q, e))
         /\ e.kind = "DIVIDEND" => SameHolding(p, ReplayEvent(p, e))
<1>1. p \in Replayed /\ q \in Replayed
  BY DEF IsPosition
<1>2. e.kind \in {"BUY", "SELL", "DIVIDEND"}
  BY DEF IsPlayable
<1>3. e.kind = "DIVIDEND" => SameHolding(p, ReplayEvent(p, e)) /\ SameHolding(q, ReplayEvent(q, e))
  <2> SUFFICES ASSUME e.kind = "DIVIDEND", NEW r \in Replayed PROVE SameHolding(r, ReplayEvent(r, e))
    BY <1>1
  <2>1. \/ ReplayEvent(r, e) = r
        \/ ReplayEvent(r, e) = [r EXCEPT !.cost = LessDividend(r.shares, @, e.amount)]
    BY DEF ReplayEvent
  <2> QED BY <2>1 DEF SameHolding, Replayed
<1>4. ASSUME SameHolding(p, q) PROVE SameHolding(ReplayEvent(p, e), ReplayEvent(q, e))
  <2>1. CASE e.kind = "DIVIDEND"
    BY <1>3, <1>4, <2>1 DEF SameHolding
  <2>2. CASE ~p.ok
    <3>1. ReplayEvent(p, e) = p /\ ReplayEvent(q, e) = q
      BY <1>4, <2>2 DEF ReplayEvent, SameHolding
    <3> QED BY <1>4, <3>1
  <2>3. CASE p.ok /\ e.kind = "BUY"
    <3>1. \A r \in {p, q} :
            /\ ReplayEvent(r, e).ok = r.ok /\ ReplayEvent(r, e).shares = r.shares + e.shares
            /\ ReplayEvent(r, e).open = IF r.open = 0 THEN e.day ELSE r.open
      <4> SUFFICES ASSUME NEW r \in Replayed, r.ok
                   PROVE  /\ ReplayEvent(r, e).ok = r.ok
                          /\ ReplayEvent(r, e).shares = r.shares + e.shares
                          /\ ReplayEvent(r, e).open = IF r.open = 0 THEN e.day ELSE r.open
        BY <1>1, <1>4, <2>3 DEF SameHolding
      <4>1. ReplayEvent(r, e) =
              [r EXCEPT !.shares = @ + e.shares,
                        !.cost = ComputeWac(r.shares, @, e.shares, e.price, Fee),
                        !.open = IF @ = 0 THEN e.day ELSE @, !.phase = "BUILD"]
        BY <2>3 DEF ReplayEvent
      <4> QED BY <4>1 DEF Replayed
    <3> QED BY <1>4, <3>1 DEF SameHolding
  <2>4. CASE p.ok /\ e.kind = "SELL"
    <3>1. e.shares \in Nat /\ p.shares \in Nat /\ q.shares = p.shares /\ q.ok
      BY <1>1, <1>4, <2>4 DEF IsPlayable, Replayed, SameHolding
    <3>2. CASE e.shares > p.shares
      <4>1. ReplayEvent(p, e) = [p EXCEPT !.ok = FALSE] /\ ReplayEvent(q, e) = [q EXCEPT !.ok = FALSE]
        BY <2>4, <3>1, <3>2 DEF ReplayEvent
      <4> QED BY <1>1, <1>4, <4>1 DEF SameHolding, Replayed
    <3>3. CASE e.shares = p.shares
      <4>1. ReplayEvent(p, e) = Blank /\ ReplayEvent(q, e) = Blank
        BY <2>4, <3>1, <3>3 DEF ReplayEvent
      <4> QED BY <4>1 DEF SameHolding
    <3>4. CASE e.shares < p.shares
      <4>1. /\ ReplayEvent(p, e) = [p EXCEPT !.shares = @ - e.shares, !.phase = "REDUCE"]
            /\ ReplayEvent(q, e) = [q EXCEPT !.shares = @ - e.shares, !.phase = "REDUCE"]
        BY <2>4, <3>1, <3>4 DEF ReplayEvent
      <4> QED BY <1>1, <1>4, <4>1 DEF SameHolding, Replayed
    <3> QED BY <3>1, <3>2, <3>3, <3>4
  <2> QED BY <1>2, <2>1, <2>2, <2>3, <2>4
<1> QED BY <1>3, <1>4

(* Every replay of such events is a position.                              *)
LEMMA ReplayIsPosition ==
  ASSUME LedgerAssumption, NEW S, IsEventSet(S), \A e \in S : IsPlayable(e)
  PROVE  \A x \in SUBSET S : IsPosition(ReplayFcn(S)[x])
<1> DEFINE R(x) == ReplayFcn(S)[x]
           N == {n \in Nat : \A x \in SUBSET S : Cardinality(x) = n => IsPosition(R(x))}
<1>1. \A x \in SUBSET S : IsFiniteSet(x) /\ Cardinality(x) \in Nat
  BY FS_Subset, FS_CardinalityType DEF IsEventSet
<1>2. 0 \in N
  <2>1. \A x \in SUBSET S : Cardinality(x) = 0 => x = {}
    BY <1>1, FS_EmptySet
  <2>2. R({}) = Blank
    BY ReplayStep
  <2>3. IsPosition(Blank)
    BY ExactlyIs DEF Blank, IsPosition, Replayed, Phases
  <2> QED BY <2>1, <2>2, <2>3
<1>3. ASSUME NEW n \in Nat, n \in N PROVE n + 1 \in N
  <2> SUFFICES ASSUME NEW x \in SUBSET S, Cardinality(x) = n + 1 PROVE IsPosition(R(x))
    OBVIOUS
  <2> DEFINE l == LastEvent(x)
             y == x \ {l}
  <2>1. x # {}
    BY FS_EmptySet
  <2>2. l \in x /\ R(x) = ReplayEvent(R(y), l)
    BY <2>1, ReplayStep
  <2>3. Cardinality(y) = n
    <3>1. Cardinality(y) = Cardinality(x) - 1
      BY <1>1, <2>2, FS_RemoveElement
    <3> QED BY <3>1
  <2>4. IsPosition(R(y))
    BY <1>3, <2>3
  <2> HIDE DEF R, l, y
  <2>5. IsPlayable(l)
    BY <2>2
  <2> QED BY <2>2, <2>4, <2>5, EventKeepsShape
<1>4. Nat \subseteq N
  <2> HIDE DEF N
  <2> QED BY <1>2, <1>3, NatInductionOnSets
<1> QED BY <1>1, <1>4

(* An event after all others is the last one.                              *)
LEMMA LastEventIs ==
  ASSUME NEW S, IsEventSet(S), NEW e \in S, \A f \in S \ {e} : Precedes(f, e)
  PROVE  LastEvent(S) = e
<1>1. LastEvent(S) \in S /\ \A f \in S \ {LastEvent(S)} : Precedes(f, LastEvent(S))
  BY HasLastEvent
<1> SUFFICES ASSUME LastEvent(S) # e PROVE FALSE
  OBVIOUS
<1>2. Precedes(LastEvent(S), e) /\ Precedes(e, LastEvent(S))
  BY <1>1
<1>3. IsEvent(e) /\ IsEvent(LastEvent(S))
  BY <1>1 DEF IsEventSet
<1> QED BY <1>2, <1>3, PrecedesOrders

(* A replay without one of its dividends: the same holding.                *)
LEMMA WithoutDividend ==
  ASSUME LedgerAssumption, NEW S, IsEventSet(S), \A e \in S : IsPlayable(e),
         NEW d \in S, d.kind = "DIVIDEND"
  PROVE  SameHolding(ReplayOf(S \ {d}), ReplayOf(S))
<1> DEFINE R(x) == ReplayFcn(S)[x]
           Good(x) == SameHolding(R(x \ {d}), R(x))
           N == {n \in Nat : \A x \in SUBSET S : Cardinality(x) = n => Good(x)}
<1>1. \A x \in SUBSET S : IsFiniteSet(x) /\ Cardinality(x) \in Nat
  BY FS_Subset, FS_CardinalityType DEF IsEventSet
<1>2. \A x \in SUBSET S : d \notin x => Good(x)
  <2> SUFFICES ASSUME NEW x \in SUBSET S, d \notin x PROVE Good(x)
    OBVIOUS
  <2>1. x \ {d} = x
    OBVIOUS
  <2> QED BY <2>1 DEF SameHolding
<1>3. 0 \in N
  <2>1. \A x \in SUBSET S : Cardinality(x) = 0 => x = {}
    BY <1>1, FS_EmptySet
  <2> HIDE DEF Good
  <2> QED BY <1>2, <2>1
<1>4. ASSUME NEW n \in Nat, n \in N PROVE n + 1 \in N
  <2> SUFFICES ASSUME NEW x \in SUBSET S, Cardinality(x) = n + 1, d \in x PROVE Good(x)
    BY <1>2
  <2> DEFINE l == LastEvent(x)
             y == x \ {l}
  <2>1. l \in x /\ R(x) = ReplayEvent(R(y), l)
    BY ReplayStep
  <2>2. \A f \in x \ {l} : Precedes(f, l)
    <3>1. IsEventSet(x) /\ x # {}
      BY SmallerEventSet
    <3> QED BY <3>1, HasLastEvent
  <2>3. Cardinality(y) = n
    <3>1. Cardinality(y) = Cardinality(x) - 1
      BY <1>1, <2>1, FS_RemoveElement
    <3> QED BY <3>1
  <2>4. IsPosition(R(y)) /\ IsPosition(R(y \ {d})) /\ IsPlayable(l)
    <3> HIDE DEF l
    <3>1. y \in SUBSET S /\ y \ {d} \in SUBSET S /\ l \in S
      BY <2>1
    <3> QED BY <3>1, ReplayIsPosition
  <2>5. CASE l = d
    <3> HIDE DEF R, l
    <3>1. SameHolding(R(y), ReplayEvent(R(y), l))
      BY <2>4, <2>5, EventKeepsHolding
    <3> QED BY <2>1, <2>5, <3>1
  <2>6. CASE l # d
    <3>1. Good(y)
      <4> HIDE DEF Good, l
      <4> QED BY <1>4, <2>3
    <3> DEFINE z == x \ {d}
    <3>2. z \in SUBSET S /\ l \in z /\ \A f \in z \ {l} : Precedes(f, l)
      <4> HIDE DEF l
      <4> QED BY <2>1, <2>2, <2>6
    <3>3. LastEvent(z) = l
      <4> HIDE DEF l, z
      <4>1. IsEventSet(z)
        BY <3>2, SmallerEventSet
      <4> QED BY <3>2, <4>1, LastEventIs
    <3>4. R(z) = ReplayEvent(R(z \ {l}), l)
      <4>1. z # {}
        BY <3>2
      <4>2. R(z) = ReplayEvent(R(z \ {LastEvent(z)}), LastEvent(z))
        <5> HIDE DEF z
        <5> QED BY <3>2, <4>1, ReplayStep
      <4> HIDE DEF l, z, R
      <4> QED BY <3>3, <4>2
    <3>5. z \ {l} = y \ {d}
      <4> HIDE DEF l
      <4> QED OBVIOUS
    <3> HIDE DEF R, l, z, y
    <3>6. SameHolding(ReplayEvent(R(y \ {d}), l), ReplayEvent(R(y), l))
      BY <2>4, <3>1, EventKeepsHolding
    <3> QED BY <2>1, <3>4, <3>5, <3>6 DEF z
  <2> QED BY <2>5, <2>6
<1>5. Nat \subseteq N
  <2> HIDE DEF N
  <2> QED BY <1>3, <1>4, NatInductionOnSets
<1>6. SameHolding(R(S \ {d}), R(S))
  <2> HIDE DEF R
  <2> QED BY <1>1, <1>5
<1>7. R(S \ {d}) = ReplayOf(S \ {d})
  <2> DEFINE T == S \ {d}
  <2>1. T \in SUBSET S
    OBVIOUS
  <2> HIDE DEF T
  <2>2. ReplayFcn(T)[T] = ReplayFcn(S)[T]
    BY <2>1, ReplaySame
  <2> QED BY <2>2 DEF ReplayOf, T
<1> QED BY <1>6, <1>7 DEF ReplayOf

(* The events of a stock can be played.                                    *)
LEMMA EventsArePlayable ==
  ASSUME LedgerAssumption, NEW s, NEW tr \in Seq(Trade), NEW fl \in Seq(FlowRow)
  PROVE  \A e \in GatherReplayEvents(s, tr, fl) : IsPlayable(e)
<1>1. \A t \in TradesOfStock(s, tr) : IsPlayable(TradeEvent(tr, t))
  BY TradeTable DEF TradesOfStock, TradeEvent, IsPlayable
<1>2. \A i \in DividendsOfStock(s, fl) : IsPlayable(DividendEvent(fl, i))
  <2>1. \A i \in DividendsOfStock(s, fl) : fl[i] \in FlowRow
    BY DEF DividendsOfStock
  <2> QED BY <2>1 DEF DividendEvent, IsPlayable, FlowRow
<1> QED BY <1>1, <1>2, EventsAre

-----------------------------------------------------------------------------
(* The stocks of which the reports' holding is to be that of the books,    *)
(* and what is then so: it is open since the date in the position, which   *)
(* is that of a trade, and no holding ended before it began.               *)
Calm(s) == NothingVoided(s) /\ InOrder(s) /\ EverySaleCloses(s)
HoldingType == [open : Days \cup {0}, days : Seq(Nat)]
HoldingOK(s) ==
    /\ Holding(s) \in HoldingType /\ Holding(s).open = pos[s].open
    /\ Holding(s).open # 0 => \E t \in RowsOf(s, trades) : trades[t].day = Holding(s).open
HoldingInv == \A s \in Stocks : Calm(s) => HoldingOK(s)

UpTo(s, tr, type, t) == {u \in AllOfKind(s, tr, type) : u <= t}
(* The shares traded up to a row, with the table as a parameter.          *)
LEMMA SharesUpToIs ==
  ASSUME NEW s, NEW k, NEW t
  PROVE  /\ SharesUpTo(s, k, t) = SharesOf(trades, UpTo(s, trades, k, t))
         /\ SharesUpTo(s, k, t)' = SharesOf(trades', UpTo(s, trades', k, t))
BY DEF SharesUpTo, SharesOf, SharesOfTrade, UpTo, AllOfKind, TradesOf

(* The rows of a stock are rows.                                           *)
LEMMA RowsAreRows ==
  ASSUME LedgerAssumption, NEW tr \in Seq(Trade), NEW s
  PROVE  /\ AreRows(tr, RowsOf(s, tr)) /\ RowsOf(s, tr) \subseteq DOMAIN tr
         /\ RowsOf(s, tr) = {t \in DOMAIN tr : tr[t].stock = s}
<1>1. /\ IsFiniteSet(DOMAIN tr) /\ DOMAIN tr \subseteq Nat
      /\ \A t \in DOMAIN tr : tr[t].day \in Days /\ tr[t].type \in {"BUY", "SELL"}
  BY TradeTable
<1>2. RowsOf(s, tr) = {t \in DOMAIN tr : tr[t].stock = s}
  BY <1>1 DEF RowsOf, AllOfKind
<1>3. IsFiniteSet(RowsOf(s, tr))
  <2>1. RowsOf(s, tr) \in SUBSET DOMAIN tr
    BY <1>2
  <2> QED BY <1>1, <2>1, FS_Subset
<1>4. \A d \in Days : d \in Nat
  BY DEF LedgerAssumption
<1> QED BY <1>1, <1>2, <1>3, <1>4 DEF AreRows

(* The shares traded up to an old row do not change with the rows after it.*)
LEMMA EarlierSales ==
  ASSUME LedgerAssumption, Tables, NEW s,
         \A t \in DOMAIN trades : t \in DOMAIN trades' /\ trades'[t].shares = trades[t].shares,
         \A k : \A t \in DOMAIN trades : UpTo(s, trades', k, t) = UpTo(s, trades, k, t),
         \A k : AllOfKind(s, trades, k) \subseteq AllOfKind(s, trades', k),
         EverySaleCloses(s)'
  PROVE  EverySaleCloses(s)
<1> SUFFICES ASSUME NEW t \in TradesOf(s, "SELL")
             PROVE  SharesUpTo(s, "BUY", t) = SharesUpTo(s, "SELL", t)
  BY DEF EverySaleCloses
<1>1. t \in DOMAIN trades /\ t \in AllOfKind(s, trades, "SELL")
  BY DEF TradesOf, AllOfKind
<1>2. t \in AllOfKind(s, trades', "SELL")
  BY <1>1
<1>3. SharesUpTo(s, "BUY", t)' = SharesUpTo(s, "SELL", t)'
  BY <1>2 DEF EverySaleCloses, AllOfKind, TradesOf, SharesUpTo
<1>4. \A k : SharesOf(trades', UpTo(s, trades, k, t)) = SharesOf(trades, UpTo(s, trades, k, t))
  <2> SUFFICES ASSUME NEW k
               PROVE  SharesOf(trades', UpTo(s, trades, k, t)) = SharesOf(trades, UpTo(s, trades, k, t))
    OBVIOUS
  <2>1. UpTo(s, trades, k, t) \in SUBSET DOMAIN trades /\ trades \in Seq(Trade)
    BY DEF UpTo, AllOfKind, Tables
  <2> QED BY <2>1, SharesOfSame
<1>5. \A k : UpTo(s, trades', k, t) = UpTo(s, trades, k, t)
  BY <1>1
<1> QED BY <1>3, <1>4, <1>5, SharesUpToIs

(* A stock whose rows are as they were.                                    *)
LEMMA HoldingKept ==
  ASSUME LedgerAssumption, Tables, Tables', NEW s \in Stocks,
         \A k : AllOfKind(s, trades', k) = AllOfKind(s, trades, k),
         \A t \in DOMAIN trades : t \in DOMAIN trades' /\ trades'[t].shares = trades[t].shares,
         \A t \in RowsOf(s, trades) : trades'[t] = trades[t],
         Calm(s) => HoldingOK(s), InOrder(s)' => InOrder(s), Calm(s)',
         Calm(s) => pos'[s].open = pos[s].open
  PROVE  HoldingOK(s)'
<1>1. RowsOf(s, trades') = RowsOf(s, trades) /\ AreRows(trades, RowsOf(s, trades))
  <2>1. trades \in Seq(Trade)
    BY DEF Tables
  <2>2. AreRows(trades, RowsOf(s, trades))
    BY <2>1, RowsAreRows
  <2>3. RowsOf(s, trades') = RowsOf(s, trades)
    BY DEF RowsOf
  <2> QED BY <2>2, <2>3
<1>2. NothingVoided(s)
  <2>1. \A t \in RowsOf(s, trades) : ~trades'[t].void
    BY <1>1 DEF Calm, NothingVoided, RowsOf, AllOfKind, TradesOf
  <2>2. \A t \in RowsOf(s, trades) : ~trades[t].void
    BY <2>1
  <2> QED BY <2>2 DEF NothingVoided, RowsOf, AllOfKind, TradesOf
<1>3. EverySaleCloses(s)
  <2>1. \A k, t : UpTo(s, trades', k, t) = UpTo(s, trades, k, t)
    BY DEF UpTo
  <2>2. EverySaleCloses(s)'
    BY DEF Calm
  <2> QED BY <2>1, <2>2, EarlierSales
<1>4. Calm(s) /\ HoldingOK(s)
  BY <1>2, <1>3 DEF Calm
<1>5. HoldOf(trades', RowsOf(s, trades)) = HoldOf(trades, RowsOf(s, trades))
  <2> DEFINE S == RowsOf(s, trades)
  <2>1. S \in SUBSET S
    OBVIOUS
  <2> HIDE DEF S
  <2>2. AreRows(trades, S) /\ \A t \in S : trades'[t] = trades[t]
    BY <1>1 DEF S
  <2>3. HoldFcn(trades', S)[S] = HoldFcn(trades, S)[S]
    BY <2>1, <2>2, HoldSame
  <2> QED BY <2>3 DEF HoldOf, S
<1>6. Holding(s)' = Holding(s)
  BY <1>1, <1>5, HoldingIs
<1>7. Holding(s) \in HoldingType /\ Holding(s).open = pos'[s].open
  BY <1>4 DEF HoldingOK
<1>8. Holding(s).open # 0 => \E t \in RowsOf(s, trades') : trades'[t].day = Holding(s).open
  BY <1>1, <1>4 DEF HoldingOK
<1> QED BY <1>6, <1>7, <1>8 DEF HoldingOK

(* A trade appended is the latest of its stock, when the rows of the stock *)
(* are in order, and is tracked last.                                      *)
LEMMA HoldingGrows ==
  ASSUME LedgerAssumption, Inv, Tables', LinkedRows, NEW x \in Trade, NEW f \in FlowRow,
         trades' = Append(trades, x), flows' = Append(flows, f),
         f.stock = x.stock, f.day = x.day, x.void = FALSE, NEW s, s = x.stock, Calm(s)'
  PROVE  /\ Calm(s) /\ RowsOf(s, trades') = RowsOf(s, trades) \cup {Len(trades) + 1}
         /\ \A t \in RowsOf(s, trades) : trades'[t] = trades[t] /\ trades[t].day < x.day
         /\ trades'[Len(trades) + 1] = x
         /\ Holding(s)' = HoldStep(trades', Holding(s), Len(trades) + 1)
<1> DEFINE m == Len(trades) + 1
<1>0. trades \in Seq(Trade) /\ trades' \in Seq(Trade) /\ Len(trades) \in Nat /\ Tables
  BY DEF Inv, Tables
<1>1. /\ DOMAIN trades' = DOMAIN trades \cup {m} /\ m \notin DOMAIN trades
      /\ trades'[m] = x /\ \A u \in DOMAIN trades : trades'[u] = trades[u] /\ u < m
  BY <1>0
<1> HIDE DEF m
<1>2. /\ RowsOf(s, trades) = {t \in DOMAIN trades : trades[t].stock = s}
      /\ RowsOf(s, trades') = {t \in DOMAIN trades' : trades'[t].stock = s}
      /\ AreRows(trades', RowsOf(s, trades'))
  <2>1. \A tr \in Seq(Trade) : /\ RowsOf(s, tr) = {t \in DOMAIN tr : tr[t].stock = s}
                               /\ AreRows(tr, RowsOf(s, tr))
    BY RowsAreRows
  <2> QED BY <1>0, <2>1, ZenonT(30)
<1>3. RowsOf(s, trades') = RowsOf(s, trades) \cup {m} /\ m \notin RowsOf(s, trades)
  BY <1>1, <1>2
<1>4. \A t \in RowsOf(s, trades) : ~trades[t].void
  <2>1. \A t \in RowsOf(s, trades') : ~trades'[t].void
    BY DEF Calm, NothingVoided, RowsOf, AllOfKind, TradesOf
  <2> QED BY <1>1, <1>2, <1>3, <2>1
<1>5. InOrder(s)
  BY InOrderBefore DEF Calm
<1>6. \A t \in RowsOf(s, trades) : trades[t].day < x.day
  <2> SUFFICES ASSUME NEW t \in RowsOf(s, trades) PROVE trades[t].day < x.day
    OBVIOUS
  <2>1. t \in TradesOfStock(s, trades)
    BY <1>2, <1>4 DEF TradesOfStock
  <2>2. TradeEvent(trades, t) \in GatherReplayEvents(s, trades, flows)
    BY <2>1, EventsAre
  <2>3. \A e \in GatherReplayEvents(s, trades, flows) : e.day < x.day
    BY AllBefore DEF Calm
  <2>4. TradeEvent(trades, t).day = trades[t].day
    BY DEF TradeEvent
  <2> QED BY <2>2, <2>3, <2>4
<1>7. EverySaleCloses(s)
  <2>1. \A k : \A t \in DOMAIN trades : UpTo(s, trades', k, t) = UpTo(s, trades, k, t)
    <3> SUFFICES ASSUME NEW k, NEW t \in DOMAIN trades
                 PROVE  UpTo(s, trades', k, t) = UpTo(s, trades, k, t)
      OBVIOUS
    <3>1. t < m /\ t \in Nat /\ m \in Nat
      BY <1>0, <1>1 DEF m
    <3>2. ~(m <= t)
      BY <3>1
    <3> QED BY <1>1, <3>2 DEF UpTo, AllOfKind
  <2>2. \A k : AllOfKind(s, trades, k) \subseteq AllOfKind(s, trades', k)
    BY <1>1 DEF AllOfKind
  <2>3. \A t \in DOMAIN trades : t \in DOMAIN trades' /\ trades'[t].shares = trades[t].shares
    BY <1>1
  <2>4. EverySaleCloses(s)'
    BY DEF Calm
  <2> QED BY <1>0, <2>1, <2>2, <2>3, <2>4, EarlierSales
<1>8. Calm(s)
  <2>1. NothingVoided(s)
    BY <1>4 DEF NothingVoided, RowsOf, AllOfKind, TradesOf
  <2> QED BY <1>5, <1>7, <2>1 DEF Calm
<1>9. Holding(s)' = HoldStep(trades', Holding(s), m)
  <2> DEFINE S == RowsOf(s, trades)
  <2>1. \A t \in S : trades'[t] = trades[t] /\ trades'[t].day < trades'[m].day
    BY <1>1, <1>2, <1>6
  <2>2. m \notin S /\ AreRows(trades', S \cup {m})
    BY <1>2, <1>3
  <2> HIDE DEF S
  <2> DEFINE ts == trades'
  <2>4. /\ \A t \in S : ts[t] = trades[t] /\ ts[t].day < ts[m].day
        /\ m \notin S /\ AreRows(ts, S \cup {m})
    BY <2>1, <2>2
  <2> HIDE DEF ts
  <2>5. HoldOf(ts, S \cup {m}) = HoldStep(ts, HoldOf(trades, S), m)
    BY <2>4, HoldOneMore
  <2>3. HoldOf(trades', S \cup {m}) = HoldStep(trades', HoldOf(trades, S), m)
    BY <2>5 DEF ts
  <2> QED BY <1>3, <2>3, HoldingIs DEF S
<1> QED BY <1>1, <1>2, <1>3, <1>6, <1>8, <1>9 DEF m

(* record_trade, BUY: the holding opens when the position does.            *)
LEMMA BuyKeepsHolding ==
  ASSUME LedgerAssumption, Inv, Tables', LinkedRows, BooksInv, HoldingInv,
         NEW s \in Stocks, NEW d \in Days, NEW p \in Prices, NEW n \in Lots,
         RecordBuy(s, d, p, n), Calm(s)'
  PROVE  HoldingOK(s)'
<1> DEFINE t == Len(trades) + 1
           x == [stock |-> s, type |-> "BUY", day |-> d, price |-> p, shares |-> n, void |-> FALSE]
           f == Flow("BUY_FEE", -(p * n + Fee), d, s, t, NoKey)
           h == Holding(s)
<1>1. trades' = Append(trades, x) /\ flows' = Append(flows, f)
  BY DEF RecordBuy
<1>2. x \in Trade /\ x.stock = s /\ x.day = d /\ x.void = FALSE /\ x.type = "BUY"
  BY DEF Trade
<1>3. f \in FlowRow /\ f.stock = s /\ f.day = d
  <2>1. p \in Nat /\ n \in Nat /\ Fee \in Nat /\ t \in Nat
    <3>1. Prices \subseteq Nat /\ Lots \subseteq Nat \ {0} /\ Fee \in Nat
      BY DEF LedgerAssumption
    <3>2. trades \in Seq(Trade)
      BY DEF Inv, Tables
    <3> QED BY <3>1, <3>2
  <2>2. -(p * n + Fee) \in Int
    BY <2>1
  <2> QED BY <2>1, <2>2 DEF Flow, FlowRow, FlowTypes
<1> HIDE DEF x, f
<1>4. /\ Calm(s) /\ RowsOf(s, trades') = RowsOf(s, trades) \cup {t}
      /\ \A u \in RowsOf(s, trades) : trades'[u] = trades[u] /\ trades[u].day < x.day
      /\ trades'[t] = x /\ Holding(s)' = HoldStep(trades', h, t)
  BY <1>1, <1>2, <1>3, HoldingGrows
<1>5. /\ h \in HoldingType /\ h.open = pos[s].open
      /\ h.open # 0 => \E u \in RowsOf(s, trades) : trades[u].day = h.open
  BY <1>4 DEF HoldingInv, HoldingOK
<1>6. pos'[s].open = IF h.open = 0 THEN d ELSE h.open
  <2>1. Held(s) <=> pos[s].open # 0
    BY DEF BooksInv, IsRow, Held
  <2>2. pos[s] \in Row /\ pos \in [Stocks -> Row]
    BY DEF BooksInv
  <2>3. pos' = [pos EXCEPT ![s] =
              [pos[s] EXCEPT !.shares = @ + n, !.phase = "BUILD",
                             !.cost = Stored(ComputeWac(pos[s].shares, Exactly(@), n, p, Fee)),
                             !.open = IF Held(s) THEN @ ELSE d]]
    BY DEF RecordBuy
  <2>4. pos'[s] = [pos[s] EXCEPT !.shares = @ + n, !.phase = "BUILD",
                             !.cost = Stored(ComputeWac(pos[s].shares, Exactly(@), n, p, Fee)),
                             !.open = IF Held(s) THEN @ ELSE d]
    BY <2>2, <2>3
  <2>5. pos'[s].open = IF Held(s) THEN pos[s].open ELSE d
    BY <2>2, <2>4 DEF Row
  <2> QED BY <1>5, <2>1, <2>5
<1> HIDE DEF t, h
<1>7. HoldStep(trades', h, t) = [h EXCEPT !.open = IF h.open = 0 THEN d ELSE h.open]
  BY <1>2, <1>4 DEF HoldStep
<1>8. /\ HoldStep(trades', h, t) \in HoldingType
      /\ HoldStep(trades', h, t).open = IF h.open = 0 THEN d ELSE h.open
  BY <1>5, <1>7 DEF HoldingType
<1>9. \E u \in RowsOf(s, trades') : trades'[u].day = IF h.open = 0 THEN d ELSE h.open
  BY <1>2, <1>4, <1>5
<1> QED BY <1>4, <1>6, <1>8, <1>9 DEF HoldingOK

(* A sale that closes, of a stock with no voided row, leaves no share.     *)
LEMMA ClosingSale ==
  ASSUME LedgerAssumption, Tables, Tables', BooksInv', NEW x \in Trade, x.type = "SELL",
         trades' = Append(trades, x), NEW s \in Stocks, s = x.stock, Calm(s)'
  PROVE  pos'[s] = Flat
<1> DEFINE m == Len(trades) + 1
<1>0. trades \in Seq(Trade) /\ trades' \in Seq(Trade) /\ Len(trades) \in Nat
  BY DEF Tables
<1>1. /\ DOMAIN trades' = DOMAIN trades \cup {m} /\ trades'[m] = x
      /\ \A u \in DOMAIN trades' : u <= m
  BY <1>0
<1> HIDE DEF m
<1>2. m \in AllOfKind(s, trades', "SELL")
  BY <1>1 DEF AllOfKind
<1>3. SharesOf(trades', UpTo(s, trades', "BUY", m)) = SharesOf(trades', UpTo(s, trades', "SELL", m))
  <2>1. m \in TradesOf(s, "SELL")'
    BY <1>2 DEF AllOfKind, TradesOf
  <2>2. \A t \in TradesOf(s, "SELL")' :
           SharesOf(trades', UpTo(s, trades', "BUY", t)) = SharesOf(trades', UpTo(s, trades', "SELL", t))
    BY DEF Calm, EverySaleCloses, SharesUpTo, SharesOf, SharesOfTrade, UpTo, AllOfKind, TradesOf
  <2> QED BY <2>1, <2>2
<1>4. \A k \in {"BUY", "SELL"} : UpTo(s, trades', k, m) = OfKind(s, trades', k)
  <2>1. \A k : UpTo(s, trades', k, m) = AllOfKind(s, trades', k)
    BY <1>1 DEF UpTo, AllOfKind
  <2>2. \A k \in {"BUY", "SELL"} : \A t \in AllOfKind(s, trades', k) : ~trades'[t].void
    BY DEF Calm, NothingVoided, AllOfKind, TradesOf
  <2>3. \A k \in {"BUY", "SELL"} : AllOfKind(s, trades', k) = OfKind(s, trades', k)
    BY <2>2 DEF AllOfKind, OfKind
  <2> QED BY <2>1, <2>3
<1>5. SharesOf(trades', OfKind(s, trades', "BUY")) = SharesOf(trades', OfKind(s, trades', "SELL"))
  <2>1. UpTo(s, trades', "BUY", m) = OfKind(s, trades', "BUY")
    BY <1>4
  <2>2. UpTo(s, trades', "SELL", m) = OfKind(s, trades', "SELL")
    BY <1>4
  <2> QED BY <1>3, <2>1, <2>2
<1>6. SharesOf(trades', OfKind(s, trades', "BUY")) \in Int
  <2>1. OfKind(s, trades', "BUY") \in SUBSET DOMAIN trades'
    BY DEF OfKind
  <2> QED BY <1>0, <2>1, SharesOfSome
<1>7. Net(s, trades') = 0
  <2> DEFINE b == SharesOf(trades', OfKind(s, trades', "BUY"))
  <2>1. b \in Int /\ Net(s, trades') = b - b
    BY <1>5, <1>6 DEF Net
  <2> HIDE DEF b
  <2> QED BY <2>1
<1> QED BY <1>7 DEF BooksInv, IsRow

(* record_trade, SELL: the holding ends when the position does.            *)
LEMMA SellKeepsHolding ==
  ASSUME LedgerAssumption, Inv, Tables', LinkedRows, BooksInv, BooksInv', HoldingInv,
         NEW s \in Stocks, NEW d \in Days, NEW p \in Prices, NEW n \in Lots,
         RecordSell(s, d, p, n), Calm(s)'
  PROVE  HoldingOK(s)'
<1> DEFINE t == Len(trades) + 1
           x == [stock |-> s, type |-> "SELL", day |-> d, price |-> p, shares |-> n, void |-> FALSE]
           f == Flow("SELL_PROCEEDS", p * n - Fee - Tax, d, s, t, NoKey)
           h == Holding(s)
<1>1. trades' = Append(trades, x) /\ flows' = Append(flows, f) /\ n <= pos[s].shares
  BY DEF RecordSell
<1>2. x \in Trade /\ x.stock = s /\ x.day = d /\ x.void = FALSE /\ x.type = "SELL"
  BY DEF Trade
<1>3. f \in FlowRow /\ f.stock = s /\ f.day = d
  <2>1. p \in Nat /\ n \in Nat /\ Fee \in Nat /\ Tax \in Nat /\ t \in Nat
    <3>1. Prices \subseteq Nat /\ Lots \subseteq Nat \ {0} /\ Fee \in Nat /\ Tax \in Nat
      BY DEF LedgerAssumption
    <3>2. trades \in Seq(Trade)
      BY DEF Inv, Tables
    <3> QED BY <3>1, <3>2
  <2>2. p * n - Fee - Tax \in Int
    BY <2>1
  <2> QED BY <2>1, <2>2 DEF Flow, FlowRow, FlowTypes
<1> HIDE DEF x, f
<1>4. /\ Calm(s) /\ RowsOf(s, trades') = RowsOf(s, trades) \cup {t}
      /\ \A u \in RowsOf(s, trades) : trades'[u] = trades[u] /\ trades[u].day < x.day
      /\ trades'[t] = x /\ Holding(s)' = HoldStep(trades', h, t)
  BY <1>1, <1>2, <1>3, HoldingGrows
<1>5. /\ h \in HoldingType /\ h.open = pos[s].open
      /\ h.open # 0 => \E u \in RowsOf(s, trades) : trades[u].day = h.open
  BY <1>4 DEF HoldingInv, HoldingOK
<1>6. pos'[s].open = 0
  BY <1>1, <1>2, ClosingSale DEF Inv, Flat
<1>7. h.open # 0
  <2>1. n \in Nat \ {0} /\ pos[s].shares \in Nat
    BY DEF LedgerAssumption, BooksInv, Row
  <2>2. pos[s].shares > 0
    BY <1>1, <2>1
  <2> QED BY <1>5, <2>2 DEF BooksInv, IsRow
<1> HIDE DEF t, h
<1>8. HoldStep(trades', h, t) = [open |-> 0, days |-> Append(h.days, d - h.open)]
  BY <1>2, <1>4, <1>7 DEF HoldStep
<1>9. d - h.open \in Nat
  <2>1. PICK u \in RowsOf(s, trades) : trades[u].day = h.open
    BY <1>5, <1>7
  <2>2. h.open < d
    BY <1>2, <1>4, <2>1
  <2>3. d \in Nat /\ h.open \in Nat
    <3>1. \A v \in Days \cup {0} : v \in Nat
      BY DEF LedgerAssumption
    <3>2. h.open \in Days \cup {0} /\ d \in Days \cup {0}
      BY <1>5 DEF HoldingType
    <3> QED BY <3>1, <3>2, Zenon
  <2> QED BY <2>2, <2>3
<1>10. HoldStep(trades', h, t) \in HoldingType /\ HoldStep(trades', h, t).open = 0
  <2>1. h.days \in Seq(Nat)
    BY <1>5 DEF HoldingType
  <2>2. Append(h.days, d - h.open) \in Seq(Nat)
    BY <1>9, <2>1
  <2> QED BY <1>8, <2>2 DEF HoldingType
<1> QED BY <1>4, <1>6, <1>10 DEF HoldingOK

-----------------------------------------------------------------------------
(* A stock of which no trade was recorded keeps its holding, whatever flow *)
(* was appended for another.                                               *)
LEMMA OthersKeepHolding ==
  ASSUME LedgerAssumption, Inv, Tables', HoldingInv, NEW x \in Trade, NEW f \in FlowRow,
         trades' = Append(trades, x), flows' = Append(flows, f),
         NEW s \in Stocks, s # x.stock, pos'[s] = pos[s], Calm(s)'
  PROVE  HoldingOK(s)'
<1> DEFINE m == Len(trades) + 1
<1>0. trades \in Seq(Trade) /\ Tables
  BY DEF Inv, Tables
<1>1. /\ DOMAIN trades' = DOMAIN trades \cup {m} /\ m \notin DOMAIN trades
      /\ trades'[m] = x /\ \A u \in DOMAIN trades : trades'[u] = trades[u]
  BY <1>0
<1> HIDE DEF m
<1>2. \A k : AllOfKind(s, trades', k) = AllOfKind(s, trades, k)
  BY <1>1 DEF AllOfKind
<1>3. \A t \in RowsOf(s, trades) : trades'[t] = trades[t]
  BY <1>1 DEF RowsOf, AllOfKind
<1>4. InOrder(s)' => InOrder(s)
  BY InOrderBefore
<1>5. \A t \in DOMAIN trades : t \in DOMAIN trades' /\ trades'[t].shares = trades[t].shares
  BY <1>1
<1>6. Calm(s) => HoldingOK(s)
  BY DEF HoldingInv
<1> QED BY <1>0, <1>2, <1>3, <1>4, <1>5, <1>6, HoldingKept

(* A stock keeps its holding where no trade is written.                    *)
LEMMA TradesKept ==
  ASSUME LedgerAssumption, Tables, Tables', HoldingInv, UNCHANGED trades, NEW s \in Stocks,
         InOrder(s)' => InOrder(s), Calm(s) => pos'[s].open = pos[s].open, Calm(s)'
  PROVE  HoldingOK(s)'
<1>1. /\ \A k : AllOfKind(s, trades', k) = AllOfKind(s, trades, k)
      /\ \A t \in DOMAIN trades : t \in DOMAIN trades' /\ trades'[t].shares = trades[t].shares
      /\ \A t \in RowsOf(s, trades) : trades'[t] = trades[t]
  OBVIOUS
<1>2. Calm(s) => HoldingOK(s)
  BY DEF HoldingInv
<1> QED BY <1>1, <1>2, HoldingKept

(* void_trade: its stock is no longer to agree, the others keep what they  *)
(* have.                                                                   *)
LEMMA VoidTradeKeepsHolding ==
  ASSUME LedgerAssumption, Inv, Tables', BooksInv, HoldingInv,
         NEW v \in DOMAIN trades, VoidTrade(v), NEW s \in Stocks, Calm(s)'
  PROVE  HoldingOK(s)'
<1>0. Tables /\ TradeFlows(v) \in SUBSET DOMAIN flows /\ trades \in Seq(Trade)
  BY DEF Inv, Tables, TradeFlows
<1>1. /\ trades' = [trades EXCEPT ![v].void = TRUE] /\ flows' = VoidFlows(TradeFlows(v))
      /\ \E p : pos' = Rebuilt(trades[v].stock, p)
  BY DEF VoidTrade
<1>2. /\ DOMAIN trades' = DOMAIN trades
      /\ \A u \in DOMAIN trades :
           /\ trades'[u].stock = trades[u].stock /\ trades'[u].type = trades[u].type
           /\ trades'[u].shares = trades[u].shares
      /\ \A u \in DOMAIN trades : trades'[u].void <=> u = v \/ trades[u].void
  BY <1>0, <1>1, VoidedTrade
<1>3. \A u \in DOMAIN trades : u # v => trades'[u] = trades[u]
  BY <1>1
<1>4. trades[v].type \in {"BUY", "SELL"} /\ trades'[v].void
  BY <1>0, <1>2, TradeTable
<1>5. trades[v].stock # s
  BY <1>2, <1>4 DEF Calm, NothingVoided, TradesOf
<1>6. \A k : AllOfKind(s, trades', k) = AllOfKind(s, trades, k)
  BY <1>2 DEF AllOfKind
<1>7. \A t \in RowsOf(s, trades) : trades'[t] = trades[t]
  BY <1>3, <1>5 DEF RowsOf, AllOfKind
<1>8. pos'[s] = pos[s]
  BY <1>1, <1>5 DEF Rebuilt, BooksInv
<1>9. InOrder(s)' => InOrder(s)
  BY <1>0, <1>1, InOrderVoided
<1>10. Calm(s) => HoldingOK(s)
  BY DEF HoldingInv
<1>11. \A t \in DOMAIN trades : t \in DOMAIN trades' /\ trades'[t].shares = trades[t].shares
  BY <1>2
<1> QED BY <1>0, <1>6, <1>7, <1>8, <1>9, <1>10, <1>11, HoldingKept

(* void_fund_flow of a dividend: the position is rebuilt from the other    *)
(* events, and opens on the same date.                                     *)
LEMMA VoidedDividendKeepsOpen ==
  ASSUME LedgerAssumption, Inv, Inv', LinkedRows, BooksInv, BooksInv',
         NEW i \in DOMAIN flows, VoidFundFlow(i), flows[i].type = "DIVIDEND",
         NEW s, s = flows[i].stock, InOrder(s)'
  PROVE  pos'[s].open = pos[s].open
<1>0. Tables /\ trades \in Seq(Trade) /\ flows \in Seq(FlowRow)
  BY DEF Inv, Tables
<1>1. UNCHANGED trades /\ flows' = VoidFlows({i}) /\ ~flows[i].void /\ {i} \in SUBSET DOMAIN flows
  BY DEF VoidFundFlow
<1>2. s \in Stocks
  BY DEF LinkedRows
<1>3. InOrder(s)
  BY <1>0, <1>1, InOrderVoided
<1>4. pos[s].open = ReplayPosition(s, trades, flows).open
  BY <1>2, <1>3 DEF BooksInv, InOrderIsReplay, IsReplay
<1>5. pos'[s].open = ReplayPosition(s, trades', flows').open
  BY <1>2 DEF BooksInv, InOrderIsReplay, IsReplay
<1> DEFINE S == GatherReplayEvents(s, trades, flows)
           d == DividendEvent(flows, i)
<1>6. d \in S /\ d.kind = "DIVIDEND"
  <2>1. i \in DividendsOfStock(s, flows)
    BY <1>1 DEF DividendsOfStock
  <2> QED BY <2>1, EventsAre DEF DividendEvent
<1>7. GatherReplayEvents(s, trades', flows') = S \ {d}
  <2>1. /\ DOMAIN flows' = DOMAIN flows
        /\ \A j \in DOMAIN flows :
             /\ flows'[j].stock = flows[j].stock
             /\ flows'[j].type = flows[j].type /\ flows'[j].day = flows[j].day
             /\ flows'[j].amount = flows[j].amount
             /\ flows'[j].void <=> j \in {i} \/ flows[j].void
    BY <1>0, <1>1, VoidedFlowRows
  <2>2. DividendsOfStock(s, flows') = DividendsOfStock(s, flows) \ {i}
    BY <2>1 DEF DividendsOfStock
  <2>3. \A j \in DividendsOfStock(s, flows') : DividendEvent(flows', j) = DividendEvent(flows, j)
    BY <2>1 DEF DividendsOfStock, DividendEvent
  <2>4. \A j \in DividendsOfStock(s, flows) : j # i => DividendEvent(flows, j) # d
    BY DEF DividendEvent
  <2>5. \A t \in TradesOfStock(s, trades) : TradeEvent(trades, t) # d
    <3>1. \A t \in TradesOfStock(s, trades) : trades[t].type \in {"BUY", "SELL"}
      BY <1>0, TradeTable DEF TradesOfStock
    <3> QED BY <3>1 DEF TradeEvent, DividendEvent
  <2> DEFINE TE == {TradeEvent(trades, t) : t \in TradesOfStock(s, trades)}
  <2>6. d \notin TE
    BY <2>5
  <2>7. {DividendEvent(flows', j) : j \in DividendsOfStock(s, flows')}
          = {DividendEvent(flows, j) : j \in DividendsOfStock(s, flows)} \ {d}
    <3> HIDE DEF d
    <3>1. i \in DividendsOfStock(s, flows) => DividendEvent(flows, i) = d
      BY DEF d
    <3> QED BY <2>2, <2>3, <2>4, <3>1
  <2>8. GatherReplayEvents(s, trades, flows')
          = TE \cup {DividendEvent(flows', j) : j \in DividendsOfStock(s, flows')}
    BY EventsAre
  <2>9. S = TE \cup {DividendEvent(flows, j) : j \in DividendsOfStock(s, flows)}
    BY EventsAre
  <2> HIDE DEF S, TE, d
  <2> QED BY <1>1, <2>6, <2>7, <2>8, <2>9
<1>8. IsEventSet(S) /\ \A e \in S : IsPlayable(e)
  BY <1>0, EventsAreOrdered, EventsArePlayable
<1> HIDE DEF S, d
<1>9. SameHolding(ReplayOf(S \ {d}), ReplayOf(S))
  BY <1>6, <1>8, WithoutDividend
<1>10. /\ ReplayPosition(s, trades, flows) = ReplayOf(S)
       /\ ReplayPosition(s, trades', flows') = ReplayOf(S \ {d})
  BY <1>7, ReplayUnfold DEF S
<1> QED BY <1>4, <1>5, <1>9, <1>10 DEF SameHolding

(* No rows: no holding, and no position.                                   *)
LEMMA HoldingInit == LedgerAssumption /\ Init => HoldingInv
<1> SUFFICES ASSUME LedgerAssumption, Init, NEW s \in Stocks PROVE HoldingOK(s)
  BY DEF HoldingInv
<1>1. RowsOf(s, trades) = {} /\ pos[s] = Flat
  BY DEF Init, RowsOf, AllOfKind
<1>2. AreRows(trades, {})
  BY FS_EmptySet DEF AreRows
<1>3. Holding(s) = NoHolding
  BY <1>1, <1>2, HoldUnfold, HoldingIs DEF HoldOf
<1>4. NoHolding \in HoldingType /\ NoHolding.open = 0
  BY DEF NoHolding, HoldingType
<1> QED BY <1>1, <1>3, <1>4 DEF HoldingOK, Flat

(* Every request keeps the holdings.                                       *)
LEMMA HoldingStep ==
  LedgerAssumption /\ Inv /\ Inv' /\ LinkedRows /\ BooksInv /\ BooksInv' /\ HoldingInv
    /\ [Next]_vars => HoldingInv'
<1> SUFFICES ASSUME LedgerAssumption, Inv, Inv', LinkedRows, BooksInv, BooksInv', HoldingInv,
                    [Next]_vars, NEW s \in Stocks, Calm(s)'
             PROVE  HoldingOK(s)'
  BY DEF HoldingInv
<1>0. Tables /\ Tables' /\ trades \in Seq(Trade) /\ flows \in Seq(FlowRow)
  BY DEF Inv, Tables
<1>1. ASSUME UNCHANGED <<trades, flows>>, pos'[s].open = pos[s].open PROVE HoldingOK(s)'
  <2>1. InOrder(s)' => InOrder(s)
    BY <1>1 DEF InOrder
  <2> QED BY <1>0, <1>1, <2>1, TradesKept
<1>2. ASSUME NEW f \in FlowRow, flows' = Append(flows, f), UNCHANGED trades,
             pos'[s].open = pos[s].open
      PROVE  HoldingOK(s)'
  <2>1. InOrder(s)' => InOrder(s)
    BY <1>2, InOrderBefore
  <2> QED BY <1>0, <1>2, <2>1, TradesKept
<1>3. ASSUME NEW r \in Stocks, NEW d \in Days, NEW p \in Prices, NEW n \in Lots,
             RecordTrade(r, d, p, n)
      PROVE  HoldingOK(s)'
  <2>1. CASE r = s
    <3>1. RecordBuy(s, d, p, n) => HoldingOK(s)'
      BY <1>0, BuyKeepsHolding
    <3>2. RecordSell(s, d, p, n) => HoldingOK(s)'
      BY <1>0, SellKeepsHolding
    <3> QED BY <1>3, <2>1, <3>1, <3>2 DEF RecordTrade
  <2>2. CASE r # s
    <3> DEFINE t == Len(trades) + 1
               x(k) == [stock |-> r, type |-> k, day |-> d, price |-> p, shares |-> n, void |-> FALSE]
               y == x("BUY")
               z == x("SELL")
               f == Flow("BUY_FEE", -(p * n + Fee), d, r, t, NoKey)
               g == Flow("SELL_PROCEEDS", p * n - Fee - Tax, d, r, t, NoKey)
    <3>1. p \in Nat /\ n \in Nat /\ Fee \in Nat /\ Tax \in Nat /\ t \in Nat
      <4>1. Prices \subseteq Nat /\ Lots \subseteq Nat \ {0} /\ Fee \in Nat /\ Tax \in Nat
        BY DEF LedgerAssumption
      <4> QED BY <1>0, <4>1
    <3>2. -(p * n + Fee) \in Int /\ p * n - Fee - Tax \in Int
      BY <3>1
    <3>3. f \in FlowRow /\ g \in FlowRow
      BY <3>1, <3>2 DEF Flow, FlowRow, FlowTypes
    <3>4. y \in Trade /\ z \in Trade /\ y.stock = r /\ z.stock = r
      BY DEF Trade
    <3>5. RecordBuy(r, d, p, n) =>
            trades' = Append(trades, y) /\ flows' = Append(flows, f) /\ pos'[s] = pos[s]
      BY <2>2 DEF RecordBuy, BooksInv
    <3>6. RecordSell(r, d, p, n) =>
            trades' = Append(trades, z) /\ flows' = Append(flows, g) /\ pos'[s] = pos[s]
      BY <2>2 DEF RecordSell, BooksInv
    <3> HIDE DEF x, y, z, f, g
    <3>7. CASE RecordBuy(r, d, p, n)
      BY <1>0, <2>2, <3>3, <3>4, <3>5, <3>7, OthersKeepHolding
    <3>8. CASE RecordSell(r, d, p, n)
      BY <1>0, <2>2, <3>3, <3>4, <3>6, <3>8, OthersKeepHolding
    <3> QED BY <1>3, <3>7, <3>8 DEF RecordTrade
  <2> QED BY <2>1, <2>2
<1>4. ASSUME NEW a \in Amounts, NEW d \in Days, NEW k \in Keys \cup {NoKey}, Deposit(a, d, k)
      PROVE  HoldingOK(s)'
  <2>1. Flow("DEPOSIT", a, d, NoStock, 0, k) \in FlowRow
    BY DEF LedgerAssumption, Flow, FlowRow, FlowTypes
  <2> QED BY <1>2, <1>4, <2>1 DEF Deposit
<1>5. ASSUME NEW a \in Amounts, NEW d \in Days, Withdraw(a, d)
      PROVE  HoldingOK(s)'
  <2>0. a \in Nat /\ -a \in Int
    BY DEF LedgerAssumption
  <2>1. Flow("WITHDRAW", -a, d, NoStock, 0, NoKey) \in FlowRow
    BY <2>0 DEF Flow, FlowRow, FlowTypes
  <2> QED BY <1>2, <1>5, <2>1 DEF Withdraw
<1>6. ASSUME NEW r \in Stocks, NEW a \in Dividends, NEW d \in Days,
             NEW k \in Keys \cup {NoKey}, RecordDividend(r, a, d, k)
      PROVE  HoldingOK(s)'
  <2>1. Flow("DIVIDEND", a, d, r, 0, k) \in FlowRow
    BY DEF LedgerAssumption, Flow, FlowRow, FlowTypes
  <2>2. pos'[s].open = pos[s].open
    <3>1. pos \in [Stocks -> Row]
      BY DEF BooksInv
    <3>2. pos' = pos \/ \E c : pos' = [pos EXCEPT ![r].cost = c]
      BY <1>6 DEF RecordDividend
    <3> QED BY <3>1, <3>2 DEF Row
  <2> QED BY <1>2, <1>6, <2>1, <2>2 DEF RecordDividend
<1>7. ASSUME NEW v \in DOMAIN trades, VoidTrade(v) PROVE HoldingOK(s)'
  BY <1>0, <1>7, VoidTradeKeepsHolding
<1>8. ASSUME NEW i \in DOMAIN flows, VoidFundFlow(i) PROVE HoldingOK(s)'
  <2>1. UNCHANGED trades /\ flows' = VoidFlows({i}) /\ {i} \in SUBSET DOMAIN flows
    BY <1>8 DEF VoidFundFlow
  <2>2. InOrder(s)' => InOrder(s)
    BY <1>0, <2>1, InOrderVoided
  <2>3. pos'[s].open = pos[s].open
    <3>1. CASE flows[i].type = "DIVIDEND" /\ flows[i].stock = s
      BY <1>8, <3>1, VoidedDividendKeepsOpen DEF Calm
    <3>2. CASE flows[i].type = "DIVIDEND" /\ flows[i].stock # s
      <4>1. \E p : pos' = Rebuilt(flows[i].stock, p)
        BY <1>8, <3>2 DEF VoidFundFlow
      <4> QED BY <3>2, <4>1 DEF Rebuilt, BooksInv
    <3>3. CASE flows[i].type # "DIVIDEND"
      BY <1>8, <3>3 DEF VoidFundFlow
    <3> QED BY <3>1, <3>2, <3>3
  <2> QED BY <1>0, <2>1, <2>2, <2>3, TradesKept
<1>9. ASSUME NEW r \in Stocks, NEW c \in Closes, NEW ph \in Phases, UpdatePosition(r, c, ph)
      PROVE  HoldingOK(s)'
  <2>1. pos'[s].open = pos[s].open
    <3>1. pos \in [Stocks -> Row]
      BY DEF BooksInv
    <3>2. \E v : pos' = [pos EXCEPT ![r].value = v, ![r].phase = ph]
      BY <1>9 DEF UpdatePosition
    <3> QED BY <3>1, <3>2 DEF Row
  <2> QED BY <1>1, <1>9, <2>1 DEF UpdatePosition
<1>10. ASSUME NEW q \in Quotes, pos' = Priced(q), UNCHANGED <<trades, flows>>
       PROVE  HoldingOK(s)'
  <2>1. pos[s] \in Row
    BY DEF BooksInv
  <2>2. pos'[s] = pos[s] \/ \E v : pos'[s] = [pos[s] EXCEPT !.value = v]
    BY <1>10 DEF Priced
  <2>3. pos'[s].open = pos[s].open
    BY <2>1, <2>2 DEF Row
  <2> QED BY <1>1, <1>10, <2>3
<1>11. ASSUME NEW q \in Quotes, SyncAccount(q) PROVE HoldingOK(s)'
  BY <1>10, <1>11 DEF SyncAccount
<1>12. ASSUME NEW q \in Quotes, NEW others \in BOOLEAN, MarkToMarket(q, others)
       PROVE  HoldingOK(s)'
  BY <1>1, <1>10, <1>12 DEF MarkToMarket
<1>13. CASE UNCHANGED vars
  BY <1>1, <1>13 DEF vars
<1> QED
  BY <1>3, <1>4, <1>5, <1>6, <1>7, <1>8, <1>9, <1>11, <1>12, <1>13 DEF Next

(* With nothing voided, the cash beyond the opening is what was paid in    *)
(* and what the stocks brought.                                            *)
LEMMA CashIsSplit ==
  ASSUME LedgerAssumption, Inv, CashInv, MoneyHasNoStock,
         \A i \in DOMAIN flows : ~flows[i].void
  PROVE  cash - Opening - NetInvested = SumOfFlows({i \in DOMAIN flows : flows[i].stock # NoStock})
<1> DEFINE D == DOMAIN flows
           M == {i \in D : flows[i].type \in {"DEPOSIT", "WITHDRAW"}}
           A == AmountOfFlow
<1>1. IsFiniteSet(D) /\ \A i \in D : A[i] \in Int
  BY FlowsAreFinite DEF Inv
<1>2. M \in SUBSET D /\ D \ M = {i \in DOMAIN flows : flows[i].stock # NoStock} /\ Valid = D
  BY DEF MoneyHasNoStock, Valid
<1>3. /\ cash = Opening + SumFunctionOnSet(A, D) /\ Opening \in Int
      /\ NetInvested = SumFunctionOnSet(A, M)
      /\ SumOfFlows({i \in DOMAIN flows : flows[i].stock # NoStock}) = SumFunctionOnSet(A, D \ M)
  <2>1. \A I : SumOfFlows(I) = SumFunctionOnSet(A, I)
    BY DEF SumOfFlows, AmountOfFlow
  <2>2. cash = Opening + SumOfFlows(D) /\ Opening \in Int
    BY <1>2 DEF CashInv, CashIsLedger, LedgerAssumption, Valid
  <2>3. NetInvested = SumOfFlows(M)
    BY DEF NetInvested
  <2> HIDE DEF A, M, D
  <2> QED BY <1>2, <2>1, <2>2, <2>3
<1> HIDE DEF D, M, A
<1>4. IsFiniteSet(M)
  BY <1>1, <1>2, FS_Subset
<1>5. SumFunctionOnSet(A, D \ M) = SumFunctionOnSet(A, D) - SumFunctionOnSet(A, M)
  BY <1>1, <1>2, SumOfRest
<1>6. SumFunctionOnSet(A, D) \in Int /\ SumFunctionOnSet(A, M) \in Int
  BY <1>1, <1>2, <1>4, SumOfInts
<1> QED BY <1>3, <1>5, <1>6

(* A stock's profit, where it was sold at all.                             *)
LEMMA ProfitIsSettled ==
  ASSUME LedgerAssumption, Inv, ProfitInv, NEW s \in Stocks
  PROVE  RealisedPnl(s) = SumOfFlows(TradeFlowsOf(s))
               + Fee * Cardinality(TradeFlowsOf(s)) + Tax * Cardinality(TradesOf(s, "SELL"))
<1>1. \A k : AmountOf(s, k) = Paid(s, trades, k) /\ TradesOf(s, k) = AllOfKind(s, trades, k)
  BY DEF AmountOf, Paid, AmountOfTrade, TradesOf, AllOfKind
<1>2. TradeFlowsOf(s) = FlowsOfTrades(s, flows) /\ SumOfFlows(TradeFlowsOf(s)) = Brought(s, flows)
  BY DEF TradeFlowsOf, FlowsOfTrades, SumOfFlows, Brought, AmountsOf
<1>3. Settled(s, trades, flows)
  BY DEF ProfitInv
<1> QED BY <1>1, <1>2, <1>3 DEF Settled, RealisedPnl

(* For any account, and any sequence of recording and voiding, the reports *)
(* and the books, which share no code, agree on what was earned, on when a *)
(* holding began and on the cash (PerformanceService.get_summary, by_stock *)
(* and _calc_avg_holding).                                                 *)
THEOREM ReportsAreRight == Spec => []ReportsFollowBooks
<1>1. LedgerAssumption
  BY LedgerAssumption
<1>2. ASSUME Inv, CashInv, ProfitInv, HoldingInv PROVE ReportsFollowBooks
  <2>1. (\A i \in DOMAIN flows : ~flows[i].void) =>
           cash - Opening - NetInvested =
               SumOfFlows({i \in DOMAIN flows : flows[i].stock # NoStock})
    BY <1>1, <1>2, CashIsSplit DEF ProfitInv
  <2>2. \A s \in Stocks :
           RealisedPnl(s) = SumOfFlows(TradeFlowsOf(s))
               + Fee * Cardinality(TradeFlowsOf(s)) + Tax * Cardinality(TradesOf(s, "SELL"))
    BY <1>1, <1>2, ProfitIsSettled
  <2>3. \A s \in Stocks : NothingVoided(s) /\ InOrder(s) /\ EverySaleCloses(s) =>
           /\ Holding(s).open = pos[s].open
           /\ \A i \in DOMAIN Holding(s).days : Holding(s).days[i] >= 0
    <3> SUFFICES ASSUME NEW s \in Stocks, Calm(s)
                 PROVE  /\ Holding(s).open = pos[s].open
                        /\ \A i \in DOMAIN Holding(s).days : Holding(s).days[i] >= 0
      BY DEF Calm
    <3>1. Holding(s) \in HoldingType /\ Holding(s).open = pos[s].open
      BY <1>2 DEF HoldingInv, HoldingOK
    <3>2. Holding(s).days \in Seq(Nat)
      BY <3>1 DEF HoldingType
    <3> QED BY <3>1, <3>2
  <2> QED BY <2>1, <2>2, <2>3 DEF ReportsFollowBooks
<1>3. Inv /\ LinkedRows /\ BooksInv /\ HoldingInv /\ Inv' /\ (LinkedRows /\ BooksInv)' /\ [Next]_vars
        => HoldingInv'
  BY <1>1, HoldingStep
<1>4. Inv /\ Inv' /\ ProfitInv /\ [Next]_vars => ProfitInv'
  BY <1>1, ProfitStep
<1>5. Inv /\ CashInv /\ [Next]_vars => CashInv'
  BY <1>1, CashStep
<1>6. Init => CashInv /\ ProfitInv /\ HoldingInv
  BY <1>1, CashInit, ProfitInit, HoldingInit
<1>7. Inv /\ CashInv /\ ProfitInv /\ HoldingInv => ReportsFollowBooks
  BY <1>2
<1>8. Spec => [](LinkedRows /\ BooksInv)
  BY BooksAreKept
<1> QED BY <1>3, <1>4, <1>5, <1>6, <1>7, <1>8, LedgerInvariance, PTL DEF Spec
=============================================================================
