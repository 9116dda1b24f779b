CONSTANTS
  Event = {superBowl}
  SuperBowl = superBowl
  Run <- Overlap
  Confirmation = confirmation
  Settlement = settlement
  PollDelay = 1
  RetryDelay = 1
  SendDelay = 1
  Final15 = 1
  Final24 = 3
  DiscoveryDelay = 2
  MaxErrors = 2
  MaxAttempts = 2
  MaxVersion = 1
  Interruptible = TRUE
SPECIFICATION Spec
INVARIANTS
  TypeOK
  AlarmIsKept
