CONSTANTS
  c1 = c1
  c2 = c2
  alarm = alarm
  settle = settle
  Drain = {alarm}
  Consumer = {c1, c2}
  MaxAttempts = 2
  MaxRetries = 1
  MaxVersion = 2
  MaxEvents = 2
  r1 = r1
  r2 = r2
  r3 = r3
  k1 = k1
  k2 = k2
  s1 = s1
  s2 = s2
  m1 = m1
  m2 = m2
  Request = {r1, r2, r3}
  Key = {k1, k2}
  Slug = {s1, s2}
  Material = {m1, m2}
  Sends <- Sent
  MayFail = TRUE
  MayStop = TRUE
SPECIFICATION DirectorySpec
SYMMETRY Interchangeable
CHECK_DEADLOCK FALSE
INVARIANTS
  TypeOK
  RowsAreTrue
PROPERTIES
  Abstract
  CreationIsSafe
