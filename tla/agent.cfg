SPECIFICATION FairSpec
CONSTANTS
  RetryMax = 1
  MaxPolls = 2
  MaxReports = 2
  MaxBegun = 2
  Configs <- MCConfigs
INVARIANTS TypeOK CountAhead ReportsSound PollCountBounds SentUnlessAllTried SignalFlushes
PROPERTIES NoStepBack AgentEnds
CHECK_DEADLOCK FALSE
