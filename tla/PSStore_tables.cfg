SPECIFICATION FairSpec
CONSTANTS
  Slave = {s1, s2}
  Peer = {p1, p2}
  Trusted = {p1, p2}
  Job = {j1}
  Name = {n1}
  UploadTTL = 1
  MaxClock = 2
  Failures = TRUE
  None = None
INVARIANTS TypeOK References OneRegistration InTimeCommit
PROPERTIES CommittedForever AbandonedUploadReclaimed
