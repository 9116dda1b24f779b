CONSTANTS
  e1 = e1
  e2 = e2
  NMembers = 2
  NWagers = 2
  NOrders = 2
  Unit = 2
  Event <- OneEvent
  SuperBowl = e1
  Ticket <- BothSides
  Risk = {2}
  Amount = {3}
  MaxSideBet = 2
  LegScale = 1
  Profit <- EvenMoney
  MaxVersion = 1
SPECIFICATION Spec
INVARIANTS
  TypeOK
  BooksBalance
PROPERTIES
  ClosedIsFrozen
  PriceUndiluted
