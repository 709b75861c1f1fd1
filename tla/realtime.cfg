\* Two connections and one request that announces something.
SPECIFICATION Spec
CONSTANTS
  ann = ann  bob = bob
  s1 = s1  s2 = s2
  c1 = c1
  User = {ann, bob}
  Socket = {s1, s2}
  Call = {c1}
SYMMETRY Connections
INVARIANTS
  TypeOK
  AnnouncedToAll
  HungUpForGood
  LeftBehindIsDead
CHECK_DEADLOCK FALSE
