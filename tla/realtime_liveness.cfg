\* One connection and one request, under fairness.
SPECIFICATION FairSpec
CONSTANTS
  ann = ann  bob = bob
  s1 = s1  s2 = s2
  c1 = c1
  User = {ann, bob}
  Socket = {s1}
  Call = {c1}
PROPERTIES
  RevokedIsHungUp
  EveryCallIsAnswered
CHECK_DEADLOCK FALSE
