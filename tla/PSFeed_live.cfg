SPECIFICATION Spec
CONSTANTS
  s1 = s1
  s2 = s2
  j1 = j1
  j2 = j2
  j3 = j3
  f1 = f1
  f2 = f2
  owner = owner
  a = a
  b = b
  c = c
  Slave = {s1, s2}
  Job = {j1, j2}
  Feed = {f1}
  Attr = {owner, a, b, c}
  Owner = owner
  Tag = {a, b}
  FileAttr = {c}
  Wants <- OneWanted
  Query <- OwnerQuery
  Fits <- AllFit
  Old <- OldJob
  Subscribed = {f1}
  History = {}
  Continuous = {}
  BatchSize = 1
  MaxCalls = 3
  Faults = FALSE
  Crashes = FALSE
SYMMETRY SlaveSymmetry
INVARIANTS KeptUpToDate FedIsComplete
