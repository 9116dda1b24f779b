CONSTANTS
  v1 = v1
  v2 = v2
  ann = ann
  bob = bob
  inbox = inbox
  other = other
  Visit = {v1, v2}
  Person = {ann, bob}
  Creator = ann
  Address = {inbox, other}
  NoAddress = NoAddress
  Kickoff = 8
  EligibilityWindow = 6
  RetryWindow = 3
  Lease = 2
  RetryDelay = 2
  DedupWindow = 5
  MaxTime = 8
  MaxChanges = 1
SPECIFICATION FairSpec
INVARIANTS
  TypeOK
  MailedOnce
PROPERTIES
  ReminderResolves
CHECK_DEADLOCK FALSE
