\* Two overlapping requests; people come and go while money is recorded.
SPECIFICATION TrackedSpec
CONSTANTS
  ann = ann  bob = bob  cai = cai  c1 = c1
  r1 = r1  r2 = r2
  User = {ann, bob, cai}
  Founder = ann
  Companion = {bob}
  Code = {c1}
  StandingCode = {c1}
  ExpiringCode = {}
  MaxUses = 2
  Req = {r1, r2}
  Ops = {"create_expense", "archive", "remove_member", "leave",
         "join", "delete_account"}
  Bills <- OneBill
  Amounts = {2}
  MaxEntries = 1
  MaxRows = 2
SYMMETRY Slots
INVARIANTS
  EveryUseIsCounted
  NobodyIsForgotten
PROPERTIES
  LedgerOutlivesMembers
  DepartureIsSettled
  EntriesAmongMembers
  ArchivedIsReadOnly
CHECK_DEADLOCK FALSE
