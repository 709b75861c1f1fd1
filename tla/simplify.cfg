\* Every zero-sum ledger of five people within three cents.
SPECIFICATION Spec
CONSTANTS
  Person <- People5
  Rank <- ByNumber
  Ledgers <- ZeroSum
  MaxCents = 3
INVARIANTS
  FewTransfers
PROPERTIES
  SettlesDebts
  EverybodyEndsSquare
CHECK_DEADLOCK FALSE
