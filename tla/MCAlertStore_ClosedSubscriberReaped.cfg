CONSTANTS
  f1 = f1
  p1 = p1
  p2 = p2
  c1 = c1
  noAlert = noAlert
  FPs = {f1}
  MaxTime = 2
  Putters = {p1}
  Clients = {c1}
  MaxPuts = 2
  Cap = 3
  NoAlert = noAlert
SPECIFICATION Spec
PROPERTY ClosedSubscriberReaped
