SPECIFICATION FairSpec
CONSTANTS
  Schedule = Schedule
  Reader = Reader
  Caller = Caller
  MaxPulls = 4
  Ties = {2}
  Unmerged = {3}
  HarvestLimit = 3
  IncrementalLimit = 1
  PageSize = 2
  MaxEvents = 1
  Reviews <- ReviewsOf
  Commits <- CommitsOf
  Likeness <- Likenesses
  Threshold <- Thresholds
  MinSupport = 2
  MinReviewers = 2
  MaxComments = 4
INVARIANTS  NormsAreStandards
 
CHECK_DEADLOCK FALSE
