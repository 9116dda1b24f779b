CONSTANTS
  c1 = c1
  c2 = c2
  alarm = alarm
  g1 = g1
  g2 = g2
  a = a
  b = b
  Drain = {alarm}
  Consumer = {c1, c2}
  MaxAttempts = 3
  MaxRetries = 2
  MaxVersion = 2
  MaxEvents = 1
  NPools = 2
  PageSize = 2
  Game = {g1, g2}
  Legs <- OnTwoGames
  Sweep = {a, b}
  Grace = 1
  Cooldown = 1
SPECIFICATION DeliveriesSpec
CHECK_DEADLOCK FALSE
PROPERTIES
  ShownOrLost
  OverdueIsHandled
