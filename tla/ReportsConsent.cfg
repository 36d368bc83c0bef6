SPECIFICATION Spec
CONSTANTS
  MaxTrades = 2
  MaxClicks = 3
  MaxUpsets = 0
  TRADES_PER_PASS = 2
  MAX_SALES_PER_BATCH = 1
  None = None
INVARIANTS OnlyAgreedIsPosted
CHECK_DEADLOCK FALSE
