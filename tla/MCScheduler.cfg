SPECIFICATION Spec
CONSTANTS
  r1 = r1
  r2 = r2
  p1 = p1
  p2 = p2
  Repo = {r1, r2}
  PR = {p1, p2}
  RepoOf <- TwoRepos
  Sha = {h1, h2}
  NoSha = NoSha
  Worker = {w1, w2}
  MaxDepth = 2
  MaxRuns = 3
  MaxRestarts = 0
INVARIANTS TypeOK QueueOK TaskAgreesWithRow PendingIsFresh
SYMMETRY Symmetry
