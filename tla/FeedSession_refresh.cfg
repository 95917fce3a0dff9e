SPECIFICATION Spec
CONSTANTS
  Feed = {u1, u2, u3}
  Id = {i1, i2}
  History = {u1}
  Continuous = {u1, u2}
  FeedTTL = 4
  ReconnectTime = 13
  ReactionTime = 2
  MaxTries = 2
  MaxJobs = 3
  BatchSize = 2
  Faults = FALSE
  CredFaults = FALSE
  Crashes = FALSE
  Prompt = TRUE
  None = None
SYMMETRY IdSymmetry
INVARIANTS RefreshedInTime DoneMeansSent
