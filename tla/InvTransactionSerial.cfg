SPECIFICATION SerialSpec
CONSTANTS
  Requests = {r1, r2}
  Keys = {"k1", "k2"}
  Calls <- AllCalls
  Stocks <- MCStocks
  FirstRow = row0
PROPERTY ImplementsAccount
