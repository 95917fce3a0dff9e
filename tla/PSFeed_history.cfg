SPECIFICATION Spec
CONSTANTS
  s1 = s1
  s2 = s2
  j1 = j1
  j2 = j2
  j3 = j3
  f1 = f1
  f2 = f2
  owner = owner
  a = a
  b = b
  c = c
  Slave = {s1, s2}
  Job = {j1, j2, j3}
  Feed = {f1, f2}
  Attr = {owner, a, b, c}
  Owner = owner
  Tag = {a, b}
  FileAttr = {c}
  Wants <- TwoWanted
  Query <- TwoQueries
  Fits <- OtherOwner
  Old <- OldJobs
  Subscribed = {f2}
  History = {f1}
  Continuous = {f1}
  BatchSize = 2
  MaxCalls = 1
  Faults = TRUE
  Crashes = TRUE
SYMMETRY SlaveSymmetry
INVARIANTS TypeOK HistoryDelivered FedMeansDelivered 
