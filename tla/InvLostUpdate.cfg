SPECIFICATION DistinctSpec
CONSTANTS
  Requests = {r1, r2}
  Keys = {"k1", "k2"}
  Calls <- RetryCalls
  Stocks <- MCStocks
  FirstRow = row0
INVARIANT BalanceIsSumOfMovements
