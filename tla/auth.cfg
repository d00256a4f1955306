\* Every access mode, under fairness.
SPECIFICATION FairSpec
CONSTANTS
  c1 = c1
  c2 = c2
  c3 = c3
  Card = {c1, c2, c3}
  NoCard = NoCard
  Digit = {1, 2}
  Rows <- UserRows
  AccessModes = {1, 2, 16, 32, 48, 64}
  TWO_FACTOR_TIME = 2
  MAX_PIN_LEN = 2
  PIN_BUF_LEN = 3
  LongCards = {c3}
  MaxTime = 1
INVARIANTS
  TypeOK
  FactorsAreFresh
PROPERTIES
  GrantNeedsFactors
  FactorsForgotten
