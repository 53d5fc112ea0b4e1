SPECIFICATION PlatformSpec
CONSTANTS
  Techniques = {t1}
  Writers = {w1, w2}
  Entries <- GraphEntries
  Ends <- GraphEnds
  Sightings = {"logon", "other"}
  Updates <- EntriesOf
  Absent = Absent
  Torn = Torn
  MAX_OBSERVATIONS = 1
  MaxUpdates = 2
  MaxMerges = 2
  Nodes = {1, 2, 3, 4}
  LinkChoices <- CycleWithTail
  Depths = {1, 2, 3}
  Limits = {2, 3, 9}
  BadSets <- KnownBad
  EntityLists <- CaseEntities
  Keys = {k1, k2}
  MaxRequests = 2
  Window = 2
  Second = 2
  MaxTime = 4
  Rows = {i1, i2, i3}
  PageSize = 1
  MaxChanges = 3
  MaxOffset = 2
  Actions = {a1}
  NoAction = NoAction
  MaxSessions = 2
  MaxPages = 2
  MaxRuns = 3
  MaxCalls = 2
  LoggedEpisodes = {e1}
  Feedbacks = {f1, f2}
  UnknownClass = {f2}
  NoBandit = NoBandit
  Missing = Missing
  TornState = TornState
  NoRecommendation = NoRecommendation
  CaseTexts <- SomeCases
  AlertTexts <- SomeAlerts
  MaxAlerts = 2
  Timelines <- SomeTimelines
  EventsShown = 2
  ItemLimits = {1, 3, 40}
  Drafts <- SomeDrafts
  DemoRuns = {"phishing", "benign"}
  NoState = NoState
  EventsOf <- ScenarioLength
  Confidences = {50, 900}
  Criticalities = {300, 800}
  Degrees = {0, 20}
  Rarities = {0, 1000}
  PathLengths = {0, 3}
  Rates = {0, 5}
  Requests = {r1, r2, r3}
INVARIANTS
  PlatformTypeOK
  EdgesFollowFields
  NothingForgotten
  UpsertsAddUp
  SearchesAreExact
  NeverOverRate
  RetryAfterSuffices
  NoStaleOffer
  PagesMissOnlyWhatMovedUp
  ExperienceCountedOnce
  MockGroundsItself
  RunsAreAudited
  ListingIsOneRun
  RiskIsMonotone
  DamageEvident
  DamageLocated
CHECK_DEADLOCK FALSE
