SPECIFICATION FairSpec
CONSTANTS
  MaxEntries = 3
  MaxClock = 2
  StreamCap = 2
  BatchSize = 2
  Page = 1
  MaxDbRetries = 2
  Retention = 1
  RedeliveryWithin = 0
  Resends = FALSE
INVARIANTS
  CountedOnce
  AcknowledgedIsCounted
  NothingStaysPending
PROPERTIES
  EveryEntrySettles
