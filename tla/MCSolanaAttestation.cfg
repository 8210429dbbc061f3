SPECIFICATION Spec
CONSTANTS
  None = None
  Unknown = Unknown
  Calls = {c1, c2}
  Verifies = {v1}
  References = {a, b}
  Expiries = {0, 1}
  Lifetime = 1
  ConfirmTimeout = 1
  HistoryLimit = 2
  MaxHistoryTransactions = 1
  MaxTime = 1
  MaxTraffic = 1
SYMMETRY Symmetry
CONSTRAINT OneAfterTheOther
CHECK_DEADLOCK FALSE
INVARIANTS
  AnswersTellTheLedger
PROPERTIES
  WithdrawalIsSeen
  StaleIdClosesNothingAlone
