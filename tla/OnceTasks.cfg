SPECIFICATION Spec
CONSTANTS
  app = app
  daemon = daemon
  embedded = embedded
  daemonThread = daemonThread
  command = command
  worker = worker
  task = task
  beat = beat
  everyScan = everyScan
  daily = daily
  NULL = NULL
  Process = {app}
  Gui = app
  Scheduler = {embedded}
  Helper = {command}
  ProcessOf <- MCProcessOf
  Source = {task}
  Heartbeat = {}
  Job = {everyScan}
  SourceOf <- OneSource
  NameRank <- Ranks
  Trigger <- OnceTriggers
  DayLength = 2
  WeekLength = 7
  MonthLengths <- MonthsOfThree
  MaxParallelRuns = 2
  LeaseTTL = 1
  OnceWindow = 2
  Commands = {"create", "update", "triggerTask"}
  InitialStatus <- AllNew
  Synced = FALSE
  MaxTime = 2
  MaxEdition = 1
  MaxCommands = 2
  MaxFaults = 1
INVARIANTS OnceRowKeepsItsInstant
PROPERTIES LedgerSpec
CHECK_DEADLOCK FALSE
