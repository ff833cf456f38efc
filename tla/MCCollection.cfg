CONSTANTS
  Leaderboard <- MCLeaderboard
  Rank <- MCRank
  Opponents <- MCOpponents
  Battle <- MCBattle
  Log <- MCLog
  Expand = TRUE
  Target = 4
  SeedLimit = 3
  PlayerLimit = 5
  PerPlayer = 2
  Concurrency = 2
  RetryRounds = 1
  Storage = 6
  MaxFaults = 5
SPECIFICATION FairSpec
INVARIANTS
  CollectionInv
  NobodySkipped
PROPERTIES
  CollectionProgresses
CHECK_DEADLOCK FALSE
