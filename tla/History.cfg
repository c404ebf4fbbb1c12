CONSTANTS
  s0 = s0
  s1 = s1
  m1 = m1
  m2 = m2
  p1 = p1
  d1 = d1
  Sessions = {s0, s1}
  Turns = {m1, m2, p1, d1}
  Home <- MCHome
  Deliveries = {d1}
  Inbound = {m1, m2}
  Legacy = {s0}
  MaxClock = 1
  MaxCrashes = 1
  MaxFailures = 1
SPECIFICATION Spec
INVARIANTS
  TypeOK
  DeletedStaysDeleted
  IdleMeansSaved
  NoMessageLost
PROPERTIES
  StoredNeverOlder
CONSTRAINT MCConstraint
SYMMETRY MCSymmetry
CHECK_DEADLOCK FALSE
