CONSTANTS
  s1 = s1
  s2 = s2
  s3 = s3
  s4 = s4
  noEvent = noEvent
  Keys <- MCKeys
  Sigs <- MCSigs
  HashFns <- MCHashInjective
  DefaultFilters <- MCDefaultFilters
  DefaultNotFilters <- MCDefaultNotFilters
  MaxTime = 2
  NoEvent = noEvent
  Cluster <- MCCluster
  SinkLists <- MCSinkLists
SPECIFICATION Spec
INVARIANT TypeOK
INVARIANT FilterMatchesReference
