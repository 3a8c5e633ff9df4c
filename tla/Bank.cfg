\* Two workers with two transactions each, and up to three segments of two accounts.
CONSTANTS
  w1 = w1
  w2 = w2
  s0 = s0
  s1 = s1
  s2 = s2
  Workers = {w1, w2}
  Uid0 = w1
  First = s0
  Segs = {s1, s2}
  Null = Null
  NbAccounts = 2
  InitBalance = 1
  NbTx = 2
  NbCheckTx = 2
  Triggers = {0, 9}
  NoMem = TRUE
SPECIFICATION Spec
INVARIANTS TypeOK MoneyConserved ListShape NoFalseAlarm
SYMMETRY Interchangeable
