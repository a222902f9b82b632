SPECIFICATION FairSpec
CONSTANTS
  k1 = k1
  k2 = k2
  run1 = run1
  repo1 = repo1
  Key = {k1, k2}
  Price <- TwoPrices
  Unpriced = Unpriced
  Chars <- NoChars
  MaxTokens <- NoOutput
  Overhead = 1
  CacheWrite = 200
  Total = Total
  Run = {run1}
  Repo = {repo1}
  Cap <- Caps
  Thread = {t1, t2}
  Purpose <- Purposes
  MaxCalls = 2
  MaxFaults = 1
INVARIANTS TypeOK WithinCaps MoneyAccounted HeldByCalls 
PROPERTY QuestionsEnd
CHECK_DEADLOCK FALSE
