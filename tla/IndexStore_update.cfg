SPECIFICATION Spec
CONSTANTS
  anna = anna
  bob = bob
  c1 = c1
  c2 = c2
  c3 = c3
  at = at
  bt = bt
  xt = xt
  Slave = {s1, s2}
  Job = {1, 2, 3}
  User = {anna, bob}
  OwnerOf <- Owners
  Attr = {at, bt, xt}
  Configured = {at, bt, "jobid"}
  Indexed = {at}
  Single = {bt}
  IndexValue <- Index
  Call = {c1, c2, c3}
  Request <- Requests
  Query <- Queries
  NoAuth = FALSE
  MaxFaults = 1
  None = None
SYMMETRY SlaveSymmetry
INVARIANTS TypeOK AnsweredIsStored QueryExact AnswerRight OwnerFound
