CONSTANTS
  Worker = {w1, w2}
  NFiles = 1
  NReduce = 1
  Contents <- OneFile
  ihash <- Hash
  MaxTimeouts = 0
SPECIFICATION Spec
SYMMETRY Symmetry
INVARIANTS DoneMeansFinished
CHECK_DEADLOCK FALSE
