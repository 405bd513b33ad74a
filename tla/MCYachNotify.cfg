CONSTANTS
  Workcodes = {"w1", "w2"}
  MaxBatch = 2
  MaxAttempts = 3
SPECIFICATION Spec
INVARIANT TypeOK
INVARIANT GivesUpOnlyWhenExhausted
