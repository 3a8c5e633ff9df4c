\* The reference and a tested library, three workers, init, two runs and check, with every failure.
\* main may wait for ever, where EvaluationEnds says so.
SPECIFICATION EvaluationFair
CONSTANTS
  w1 = w1
  w2 = w2
  w3 = w3
  Workers = {w1, w2, w3}
  First = w1
  NbRepeats = 2
  Errors = TRUE
  Throws = TRUE
  Hangs = TRUE
  NbLibraries = 2
  Ticks = {3, 7}
  SlowFactor = 2
  InvalidTick = 14
  TickRange = 16
INVARIANTS TypeOK BarrierSync StartTogether ResultOfRound LoadedWhileUsed ExitStatus
PROPERTY EvaluationEnds
CHECK_DEADLOCK FALSE
