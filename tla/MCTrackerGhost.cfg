SPECIFICATION MCSpec
CONSTANTS
  s = s
  r1 = r1
  r2 = r2
  Clients = {s, r1, r2}
  Sources = {s}
  Environments <- TwoWorkers
SYMMETRY ReaderSymmetry
CHECK_DEADLOCK FALSE
INVARIANTS NoGhosts
