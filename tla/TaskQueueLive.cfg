SPECIFICATION FairSpec
CONSTANTS
  day1 = day1
  day2 = day2
  seg = seg
  daily = daily
  segment = segment
  Cmds <- MCDailyCmds
  Partitions <- MCDaily
  CmdName <- MCDailyName
  None = None
  StartReady = FALSE
  SameMs = FALSE
  MaxSubmits = 3
  MaxLate = 3
  MaxFaults = 0
PROPERTIES
  EveryRefAnswered
  OverCapTaskEnds
  SerialExecution
