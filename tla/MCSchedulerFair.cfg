SPECIFICATION FairSpec
CONSTANTS
  r1 = r1
  r2 = r2
  p1 = p1
  p2 = p2
  Repo = {r1, r2}
  PR = {p1, p2}
  RepoOf <- TwoRepos
  Sha = {h1}
  NoSha = NoSha
  Worker = {w1}
  MaxDepth = 3
  MaxRuns = 3
  MaxRestarts = 2

PROPERTIES QueueIsFair RunsEnd
