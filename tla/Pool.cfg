SPECIFICATION Spec
CONSTANTS
  Sessions = {s0, s1}
  Calls = {c0, c1}
  Workers = {w0, w1}
  Procs = {p0, p1, p2}
  None = None
  MaxBusy = 3
  MaxEntries = 1
CONSTRAINT MCConstraint
SYMMETRY MCSymmetry
INVARIANTS TypeOK EachInOnePlace WithinCapacity PooledIsCurrent LockMatches OrphanTellsTheTruth
CHECK_DEADLOCK FALSE
