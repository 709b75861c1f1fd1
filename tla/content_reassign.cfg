SPECIFICATION Spec
CONSTANTS
  Ann = Ann
  Bob = Bob
  Here = Here
  There = There
  User = {Ann, Bob}
  Founder = Ann
  Companion = {Bob}
  Place = {Here, There}
  Nobody = Nobody
  Ttl = 2
  Req = {1}
  Loads <- OnlyAlone
PROPERTIES
  WantedSetIsTaken
CHECK_DEADLOCK FALSE
