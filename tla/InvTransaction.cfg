SPECIFICATION FairSpec
CONSTANTS
  Requests = {r1, r2}
  Keys = {"k1", "k2"}
  Calls <- MCCalls
  Stocks <- MCStocks
  FirstRow = row0
INVARIANTS
  TypeOK
  NeverOversold
  RecordedIffApplied
  DuplicateIsJustified
PROPERTIES
  LateRetryNeverApplies
  EveryRequestSettles
