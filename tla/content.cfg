SPECIFICATION Spec
CONSTANTS
  Ann = Ann
  Bob = Bob
  Here = Here
  There = There
  User = {Ann, Bob}
  Founder = Ann
  Companion = {Bob}
  Place = {Here, There}
  Nobody = Nobody
  Ttl = 2
  Req = {1, 2}
  Loads <- AllLoads
INVARIANTS
  TypeOK
  NothingOutlivesItsParent
  DeparturesLeaveNothingBehind
PROPERTIES
  NobodyStaysOnTheMap
CHECK_DEADLOCK FALSE
