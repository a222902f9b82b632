SPECIFICATION FairSpec
CONSTANTS
  Sha = {s1, s2}
  Branch = Branch
  Watcher = Watcher
  Reader = Reader
  Caller = Caller
  Webhook = TRUE
  Grade = {"minor", "major"}
  MaxEvents = 3
INVARIANTS OneMemory MovesExplained
PROPERTY MovesRemembered
CHECK_DEADLOCK FALSE
