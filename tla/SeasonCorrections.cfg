CONSTANTS
  e1 = e1
  e2 = e2
  NMembers = 1
  NWagers = 1
  NOrders = 1
  Unit = 1
  Event <- TwoEvents
  SuperBowl = e1
  Ticket <- Combined
  Risk = {1}
  Amount = {1}
  MaxSideBet = 1
  LegScale = 2
  Profit <- EvenMoney
  MaxVersion = 2
  h1 = h1
  h2 = h2
  Holder = {h1, h2}
  Nobody = Nobody
  Bet = {1, 2}
  Stake = 2
  Yield = 1
  Purchase = {5}
  Instant = {79, 176, 186, 344}
  FallBack = 129
  SpringForward = 3322
  Calendar <- TwoChanges
  MaxPosted = 5
  Slip <- Slips
  Kickoff <- FourGames
  Ending = {"home", "away"}
  LocalLag = 7
  WeekCap = 3
  MaxRows = 3
SPECIFICATION SystemSpec
SYMMETRY Holders
INVARIANTS
  LedgerInvariant
  EvidenceDecides
  AutoClosureIsFinal
PROPERTIES
  ManualStands
  ReadsAreSound
CHECK_DEADLOCK FALSE
