SPECIFICATION Spec
CONSTANTS
  day1 = day1
  day2 = day2
  seg = seg
  daily = daily
  segment = segment
  Cmds <- MCCmds
  Partitions <- MCPartitions
  CmdName <- MCCmdName
  None = None
  StartReady = FALSE
  SameMs = FALSE
  MaxSubmits = 3
  MaxLate = 1
  MaxFaults = 1
INVARIANTS OneTaskPerCommand NoRefLost DeadlinesHitTheirTasks UnansweredAreAttended
