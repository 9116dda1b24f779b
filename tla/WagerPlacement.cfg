CONSTANTS
  Terms = {a, b}
  a = a
  b = b
  NoLeg = NoLeg
  MaxOffers = 2
  MaxTickets = 2
  MaxKeys = 4
  MaxCalls = 4
  MaxRunning = 2
  MaxTurns = 2
  MaxVersion = 2
  Replays = 1
  g1 = g1
  g2 = g2
  g3 = g3
  Game = {g1, g2, g3}
  Spread <- HomeLine
  Total = 90
  Strike <- Moneylines
  Score <- Finals
  Cancelled = Cancelled
  Unplayed = Unplayed
  MaxOdds = 920
  MaxLegs = 3
SPECIFICATION SystemSpec
INVARIANTS
  TypeOK
  TicketIsOne
  AnswersAreTrue
  TicketRulesHold
PROPERTIES
  PlacedAsOffered
CHECK_DEADLOCK FALSE
SYMMETRY Lines
