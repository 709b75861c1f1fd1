\* Every endpoint and the ledger's arithmetic, one request at a time.
SPECIFICATION Spec
CONSTANTS
  ann = ann  bob = bob  cai = cai  c1 = c1
  r1 = r1  r2 = r2
  User = {ann, bob, cai}
  Founder = ann
  Companion = {bob}
  Code = {c1}
  StandingCode = {}
  ExpiringCode = {c1}
  MaxUses = 1
  Req = {r1}
  Ops = {"create_expense", "delete_expense", "create_settlement", "delete_settlement",
         "remove_member", "transfer", "archive", "unarchive",
         "delete_trip", "create_invite", "revoke_invite", "leave",
         "join", "delete_account"}
  Bills <- ManyBills
  Amounts = {1, 3}
  MaxEntries = 2
  MaxRows = 2
INVARIANTS
  TypeOK
  EveryCentIsSomebodys
  SummaryAgreesWithReport
CHECK_DEADLOCK FALSE
