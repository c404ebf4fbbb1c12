SPECIFICATION FairSpec
CONSTANTS
  ann = ann
  bob = bob
  None = None
  MaxStarts = 2
  MaxMessages = 3
  Users = {ann, bob}
  UserOf <- Senders
  Commands = {2}
INVARIANTS TypeOK EachOnce NobodyForgotten OneTurnPerSession
PROPERTY EachAnswered
CHECK_DEADLOCK FALSE
