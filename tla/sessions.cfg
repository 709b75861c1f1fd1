\* Anybody with two overlapping requests; or the app with two calls at once, kills, and the person.
SPECIFICATION AppSpec
CONSTANTS
  Req = {1, 2}
  Ops = {"login", "refresh", "logout", "change_password", "delete_account"}
  MaxTokens = 4
  MaxPasswords = 2
  Clients = {"anybody", "app"}
  Call = {"a", "b"}
  AppReq = {1}
  AppTokens = 2
INVARIANTS
  AppTypeOK
  PredecessorIsSpent
  SweepMissesNothing
  ClosedAccountsRotateNothing
  HonestAppNeverReplays
  SharedRefreshIsRun
CHECK_DEADLOCK FALSE
