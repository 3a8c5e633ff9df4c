\* One library, two workers, nothing fails in measure: only creation and destruction matter.
\* main may wait for ever, where EvaluationEnds says so.
SPECIFICATION EvaluationFair
CONSTANTS
  w1 = w1
  w2 = w2
  w3 = w3
  Workers = {w1, w2}
  First = w1
  NbRepeats = 1
  Errors = FALSE
  Throws = FALSE
  Hangs = FALSE
  NbLibraries = 1
  Ticks = {3, 7}
  SlowFactor = 2
  InvalidTick = 14
  TickRange = 16
PROPERTY RunBounded
CHECK_DEADLOCK FALSE
