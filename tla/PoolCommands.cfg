CONSTANTS
  owner = owner
  ann = ann
  s1 = s1
  s2 = s2
  s3 = s3
  i1 = i1
  p1 = p1
  p2 = p2
  User = {owner, ann}
  Owner = owner
  Season = {s1, s2, s3}
  Past = {s1}
  Id = {i1}
  Once = Once
  Nobody = Nobody
  NoSeason = NoSeason
  NoRow = NoRow
  NoQuote = NoQuote
  Retention = 1
  MaxTime = 2
  MaxVersion = 5
  Reader = ann
  Others = {owner}
  Thread = {p1, p2}
  NoKey = NoKey
  MaxActivity = 3
  MaxNow = 2
  MaxDraft = 2
  MaxLoads = 2
  mine = mine
  yours = yours
  n1 = n1
  n2 = n2
  c1 = c1
  Slug = {mine, yours}
  Pick = {n1, n2, c1}
  College = {c1}
  Sibling <- Siblings
  Eligible = {n1, c1}
  Elsewhere = Elsewhere
  MaxItems = 2
  MaxKeys = 2
  MaxVisits = 2
  MaxJobs = 2
  MaxGone = 1
  typo = typo
  refund = refund
  Amount = {1, 2}
  Usual = 1
  Reason = {typo, refund}
  MaxOrderVersion = 4
  MaxOrderKeys = 5
  MaxSends = 4
  NotSent = NotSent
  m1 = m1
  t1 = t1
  Member = {m1}
  Section = {"name", "notice", "note"}
  Text = {t1}
  Unset = Unset
  Nil = Nil
  MaxCommands = 3
SPECIFICATION SystemSpec
CHECK_DEADLOCK FALSE
INVARIANTS
  TypeOK
  PoolIsCoherent
  BoardIsTrue
  AdminActsAreAsReviewed
PROPERTIES
  CommandEffects
  BoardPageIsTrue
