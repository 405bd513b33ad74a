CONSTANTS
  k1 = k1
  k2 = k2
  Keys <- MCKeys
  Blocked <- MCBlocked
  Envs <- MCEnvs
  MaxCount = 2
  MaxChanges = 3
  MaxBreaks = 1
SPECIFICATION Spec
INVARIANT TypeOK
PROPERTY LatestStateRouted
