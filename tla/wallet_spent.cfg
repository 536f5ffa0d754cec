SPECIFICATION Spec
CONSTANTS
  Tabs = {t1}
  Held <- HeldTwo
  Paper <- PaperFull
  Price = 2
  WebLocks = {TRUE}
  MaxPays = 1
  MaxEvents = 0
  NoTab = NoTab
  NoEntry = NoEntry
PROPERTY ReclaimedIsUnspent
CHECK_DEADLOCK FALSE
