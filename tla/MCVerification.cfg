SPECIFICATION Spec
CONSTANTS
  Cap <- Caps
  IntroParagraphs = 2
  SectionItems = 2
  MaxModules = 2
  Limits <- Thresholds
  Brief = {}
  FileOf <- Files
  PeripheralFile <- Peripheral
  ReachedBy <- Reached
  NormFor <- Norms
  MaxLint = 2
  GroupLimit = 1
  GroupSize = 2
  Precedes <- Before
  Scenario <- Scenarios
  Checkout <- Checkouts
  Known = {"older"}
  Dotted <- WithDots
  NotSource = {"build"}
  NotWalked = {"build", "coverage"}
  MaxNameMatches = 2
  Hops = 2
  MaxWalk = 8
  MaxLines = 50
  StructureLimit = 9
  MaxDrawn = 2
  MaxHotspots = 2
  Private = {"_hide", "_own"}
  DeclaredNorms <- Declared
  Offer <- CitationSets
  Notifier = TRUE
  World <- Worlds
  MatchThreshold = 60
  Alphabet <- Terms
  MaxAttempts = 3
  MaxSymbols = 2
  MaxEvents = 1
INVARIANTS CompleteMeansComplete FindingsStand     AllIsTold
CHECK_DEADLOCK FALSE
