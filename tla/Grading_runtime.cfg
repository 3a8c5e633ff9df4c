\* Two workers, init and one run, nothing fails.
SPECIFICATION Spec
CONSTANTS
  w1 = w1
  w2 = w2
  w3 = w3
  Workers <- TwoWorkers
  First = w1
  NbRepeats = 1
  Errors = FALSE
  Throws = FALSE
  Hangs = FALSE
INVARIANT RuntimeOfRound
