CONSTANTS
  Event = {superBowl}
  SuperBowl = superBowl
  Run <- Alone
  Confirmation = confirmation
  Settlement = settlement
  PollDelay = 1
  RetryDelay = 1
  SendDelay = 1
  Final15 = 1
  Final24 = 2
  DiscoveryDelay = 2
  MaxErrors = 2
  MaxAttempts = 2
  MaxVersion = 1
  Interruptible = FALSE
SPECIFICATION FairSpec
PROPERTY ConfirmationCloses
