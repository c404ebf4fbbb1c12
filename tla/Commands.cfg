SPECIFICATION Spec
CONSTANTS
  app = app
  daemon = daemon
  embedded = embedded
  daemonThread = daemonThread
  command = command
  worker = worker
  task = task
  beat = beat
  everyScan = everyScan
  daily = daily
  NULL = NULL
  Process = {app}
  Gui = app
  Scheduler = {embedded}
  Helper = {command}
  ProcessOf <- MCProcessOf
  Source = {task}
  Heartbeat = {}
  Job = {everyScan}
  SourceOf <- OneSource
  NameRank <- Ranks
  Trigger <- MixedTriggers
  DayLength = 2
  WeekLength = 7
  MonthLengths <- MonthsOfThree
  MaxParallelRuns = 1
  LeaseTTL = 1
  OnceWindow = 1
  Commands = {"update","status","list","triggerTask","triggerJob"}
  InitialStatus <- AllActive
  Synced = TRUE
  MaxTime = 2
  MaxEdition = 1
  MaxCommands = 2
  MaxFaults = 1
INVARIANTS AtMostOneExecution AuditTrail ClaimLimit

CHECK_DEADLOCK FALSE
