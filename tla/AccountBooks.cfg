SPECIFICATION Spec
CONSTANTS
    a = a
    k1 = k1
    nokey = nokey
    nostock = nostock
    Stocks <- MCStocks
    NoStock <- nostock
    Days <- MCThreeDays
    Prices = {4}
    Lots = {2}
    Amounts = {5}
    Dividends = {5}
    Closes = {3}
    Keys = {k1}
    NoKey <- nokey
    Fee = 3
    Tax = 1
    Scale = 1
    Opening = 10
    MaxTrades = 3
    MaxFlows = 3
CHECK_DEADLOCK FALSE
INVARIANTS
    CashIsLedger
    SharesAreLedger
    FlowFollowsTrade
    InOrderIsReplay
    ReportsFollowBooks
