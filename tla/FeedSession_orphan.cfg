SPECIFICATION FairSpec
CONSTANTS
  Feed = {u1}
  Id = {i1, i2}
  History = {}
  Continuous = {u1}
  FeedTTL = 1
  ReconnectTime = 1
  ReactionTime = 1
  MaxTries = 2
  MaxJobs = 0
  BatchSize = 2
  Faults = TRUE
  CredFaults = TRUE
  Crashes = TRUE
  Prompt = FALSE
  None = None
PROPERTY OrphansExpire
