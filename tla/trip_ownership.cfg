\* Two overlapping requests, everything that writes trip_members.
SPECIFICATION TrackedSpec
CONSTANTS
  ann = ann  bob = bob  cai = cai  c1 = c1
  r1 = r1  r2 = r2
  User = {ann, bob, cai}
  Founder = ann
  Companion = {bob}
  Code = {c1}
  StandingCode = {c1}
  ExpiringCode = {}
  MaxUses = 1
  Req = {r1, r2}
  Ops = {"delete_trip", "remove_member", "transfer", "leave",
         "join", "delete_account"}
  Bills <- OneBill
  Amounts = {2}
  MaxEntries = 0
  MaxRows = 2
SYMMETRY Slots
INVARIANTS
  AtMostOneOwner
  TransferHoldsTheRole
  DeletedIsEmpty
PROPERTIES
  OwnershipIsHandedOver
  OwnerIsKept
  SeatsMatchRecords
  LimitIsKept
  TripsGoWithTheirPeople
CHECK_DEADLOCK FALSE
