\* A handover overlaps the heir's departure.
SPECIFICATION Spec
CONSTANTS
  ann = ann  bob = bob  cai = cai  c1 = c1
  r1 = r1  r2 = r2
  User = {ann, bob, cai}
  Founder = ann
  Companion = {bob}
  Code = {c1}
  StandingCode = {}
  ExpiringCode = {}
  MaxUses = 1
  Req = {r1, r2}
  Ops = {"transfer", "leave"}
  Bills <- OneBill
  Amounts = {2}
  MaxEntries = 0
  MaxRows = 1
SYMMETRY Slots
INVARIANTS
  ExactlyOneOwner
CHECK_DEADLOCK FALSE
