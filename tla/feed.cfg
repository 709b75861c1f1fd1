\* Two rows written at once by another trip, and announcements of this one.
SPECIFICATION Spec
CONSTANTS
  Asked = 1
  MaxPage = 50
  MaxFetches = 2
  MaxShown = 3
  MaxSent = 1
  Req = {1}
  Scenes <- AllScenes
  Id = {1, 2, 3}
  Old = {1, 3}
  KeepRead = 1
  KeepUnread = 2
  MaxDay = 4
INVARIANTS
  WalkIsFaithful
PROPERTIES
  ToldIsRight
CHECK_DEADLOCK FALSE
