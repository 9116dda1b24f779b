CONSTANTS
  nfl = nfl
  ncaaf = ncaaf
  pro = pro
  college = college
  spread = spread
  s1 = s1
  s2 = s2
  cron = cron
  placement = placement
  Absent = Absent
  NoResult = NoResult
  Unlisted = Unlisted
  League = {nfl, ncaaf}
  Event = {pro, college}
  LeagueOf <- Leagues
  Cron = {cron}
  Placement = {placement}
  Answer <- Answers
  Market = {spread}
  DiscoveryInterval = 1
  LiveInterval = 1
  BackoffInterval = 1
  FinalDelay = {1}
  MaxTime = 2
  MaxChanges = 2
  MaxGeneration = 2
  alice = alice
  bob = bob
  JobKind = {"odds", "backup"}
  AttemptOf <- Attempts
  Missed = 0
  MaxJobTime = 2
  Reader = {alice, bob}
  Listing <- Slates
  Down = Down
  Nothing = Nothing
  BoxFresh = 1
  MatchupFresh = 2
  Flight = 1
  MaxState = 2
  TeamA = TeamA
  TeamB = TeamB
  Stranger = Stranger
  Books <- ConfiguredBooks
  Handicap = 3
  Points <- TeamPoints
  Unknown = Unknown
  Nowhere = Nowhere
  Prices <- Strikes
SYMMETRY Readers
SPECIFICATION SystemSpec
INVARIANTS
  TypeOK
  PublicationAgrees
  ShownIsRecent
PROPERTIES
  ResultsAreARegister
  TimesAdvance
  StatusIsEarned
  TeamsKeepTheirSides
