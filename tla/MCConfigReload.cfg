CONSTANTS
  ev1 = ev1
  ev2 = ev2
  garbage = garbage
  noConfig = noConfig
  Configs <- MCConfigs
  Garbage <- MCGarbage
  BadReceivers <- MCBadReceivers
  Events <- MCEvents
  EventNs <- MCEventNs
  DefaultRcv = "default"
  NoConfig = noConfig
  MaxWrites = 3
  Labels <- MCLabels
  Matchers <- MCMatchers
SPECIFICATION Spec
INVARIANT TypeOK
INVARIANT GaugeMeansApplied
PROPERTY WatchRequestAnswered
PROPERTY ReportedWriteApplied
PROPERTY ImplementsCoordinator
