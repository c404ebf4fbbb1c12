SPECIFICATION Spec
CONSTANTS
  app = app
  daemon = daemon
  embedded = embedded
  daemonThread = daemonThread
  command = command
  worker = worker
  task = task
  beat = beat
  everyScan = everyScan
  daily = daily
  NULL = NULL
  Process = {app}
  Gui = app
  Scheduler = {embedded}
  Helper = {command}
  ProcessOf <- MCProcessOf
  Source = {task}
  Heartbeat = {}
  Job = {everyScan}
  SourceOf <- OneSource
  NameRank <- Ranks
  Trigger <- OnceTriggers
  DayLength = 2
  WeekLength = 7
  MonthLengths <- MonthsOfThree
  MaxParallelRuns = 2
  LeaseTTL = 1
  OnceWindow = 4
  Commands = {"triggerTask"}
  InitialStatus <- AllActive
  Synced = TRUE
  MaxTime = 2
  MaxEdition = 0
  MaxCommands = 1
  MaxFaults = 0
PROPERTIES PausedOnlyWhenDue
CHECK_DEADLOCK FALSE
