CONSTANTS
  r1 = r1
  e1 = e1
  r2 = r2
  e2 = e2
  RcvNames <- MCRcvNames
  RouteNames <- MCRouteNames
  RcvRefs <- MCRcvRefs
  DefaultRcv = DefaultRcv
  Absent = Absent
  OldFile = OldFile
  MaxChanges = 3
SPECIFICATION Spec
INVARIANT TypeOK
INVARIANT GeneratorMatchesApi
