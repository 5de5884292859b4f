CONSTANTS
  Worker = {w1, w2}
  NFiles = 2
  NReduce = 2
  Contents <- TwoFiles
  ihash <- Hash
  MaxTimeouts = 1
SPECIFICATION Spec
SYMMETRY Symmetry
INVARIANTS TypeOK NoTaskLost OutputsAreSequential DoneIsFinished MapOnce
CHECK_DEADLOCK FALSE
