SPECIFICATION FairSpec
CONSTANTS
  Feed = {u1}
  Id = {i1, i2}
  History = {u1}
  Continuous = {u1}
  FeedTTL = 2
  ReconnectTime = 2
  ReactionTime = 1
  MaxTries = 2
  MaxJobs = 1
  BatchSize = 1
  Faults = TRUE
  CredFaults = FALSE
  Crashes = FALSE
  Prompt = FALSE
  None = None
INVARIANTS TypeOK LockedInHand
PROPERTY FeedsComeBack
