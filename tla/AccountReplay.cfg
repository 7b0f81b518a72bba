SPECIFICATION Spec
CONSTANTS
    a = a
    k1 = k1
    nokey = nokey
    nostock = nostock
    Stocks <- MCStocks
    NoStock <- nostock
    Days <- MCTwoDays
    Prices = {4}
    Lots = {1}
    Amounts = {}
    Dividends = {}
    Closes = {}
    Keys = {}
    NoKey <- nokey
    Fee = 2
    Tax = 1
    Scale = 60
    Opening = 10
    MaxTrades = 3
    MaxFlows = 3
CHECK_DEADLOCK FALSE
INVARIANTS
    PositionIsReplay
