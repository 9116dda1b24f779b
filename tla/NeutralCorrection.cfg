CONSTANTS
  e1 = e1
  e2 = e2
  NMembers = 2
  NWagers = 2
  NOrders = 3
  Unit = 1
  Event <- OneEvent
  SuperBowl = e1
  Ticket <- BothSides
  Risk = {1}
  Amount = {1}
  MaxSideBet = 1
  LegScale = 1
  Profit <- EvenMoney
  MaxVersion = 2
SPECIFICATION Spec
INVARIANT NetAffordableSettles
