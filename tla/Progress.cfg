SPECIFICATION FairSpec
CONSTANTS
  app = app
  daemon = daemon
  embedded = embedded
  daemonThread = daemonThread
  command = command
  worker = worker
  task = task
  beat = beat
  everyScan = everyScan
  daily = daily
  NULL = NULL
  Process = {app}
  Gui = app
  Scheduler = {embedded}
  Helper = {command}
  ProcessOf <- MCProcessOf
  Source = {task, beat}
  Heartbeat = {beat}
  Job = {everyScan, daily}
  SourceOf <- TwoSources
  NameRank <- Ranks
  Trigger <- MixedTriggers
  DayLength = 2
  WeekLength = 7
  MonthLengths <- MonthsOfThree
  MaxParallelRuns = 1
  LeaseTTL = 1
  OnceWindow = 1
  Commands = {"status", "heartbeat"}
  InitialStatus <- AllActive
  Synced = TRUE
  MaxTime = 2
  MaxEdition = 0
  MaxCommands = 1
  MaxFaults = 0
PROPERTIES PauseTakesEffect DueSlotClaimed
CHECK_DEADLOCK FALSE
