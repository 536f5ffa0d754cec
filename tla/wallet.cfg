SPECIFICATION FairSpec
CONSTANTS
  Tabs = {t1, t2}
  Held <- HeldTwo
  Paper <- PaperShort
  Price = 2
  WebLocks = {TRUE, FALSE}
  MaxPays = 2
  MaxEvents = 1
  NoTab = NoTab
  NoEntry = NoEntry
INVARIANTS TypeOK LoadedStays
PROPERTIES NothingLost PendingComesHome
CHECK_DEADLOCK FALSE
