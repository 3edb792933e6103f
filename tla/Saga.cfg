\* Four steps; handlers, compensations and saves may raise, the process may
\* stop.  Two dispatchers, batches of two, the first event of three always fails.
SPECIFICATION ConsistencySpec
CONSTANTS
  N = 4
  SavesFail = TRUE
  Events = {1, 2, 3}
  Poison = {1}
  BatchSize = 2
  Dispatchers = {w1, w2}
  Silent = {w2}
  Further = {3}
INVARIANTS
  TypeOK
  CompensatedMeansUndone
  UndoneInReverse
  RecordIsReliable
  DeliveredAtLeastOnce
PROPERTIES
  EveryCallSettles
  GoodEventsArrive
CHECK_DEADLOCK FALSE
