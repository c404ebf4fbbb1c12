SPECIFICATION Spec
CONSTANTS
  app = app
  daemon = daemon
  embedded = embedded
  daemonThread = daemonThread
  command = command
  worker = worker
  task = task
  beat = beat
  everyScan = everyScan
  daily = daily
  NULL = NULL
  Process = {app, daemon}
  Gui = app
  Scheduler = {embedded, daemonThread}
  Helper = {}
  ProcessOf <- MCProcessOf
  Source = {task}
  Heartbeat = {}
  Job = {everyScan}
  SourceOf <- OneSource
  NameRank <- Ranks
  Trigger <- EndingTriggers
  DayLength = 2
  WeekLength = 7
  MonthLengths <- MonthsOfThree
  MaxParallelRuns = 2
  LeaseTTL = 1
  OnceWindow = 1
  Commands = {}
  InitialStatus <- AllActive
  Synced = TRUE
  MaxTime = 3
  MaxEdition = 0
  MaxCommands = 0
  MaxFaults = 1
INVARIANTS TypeOK AtMostOneExecution LastRunWasFinished
PROPERTIES NoSlotPassedOver LedgerSpec
CHECK_DEADLOCK FALSE
