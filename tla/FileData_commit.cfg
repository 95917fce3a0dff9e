SPECIFICATION Spec
CONSTANTS
  u1 = u1
  u2 = u2
  u3 = u3
  c1 = c1
  c2 = c2
  Upload = {u1, u2, u3}
  Client = {c1, c2}
  ClientOf <- Clients
  Big = {u1}
  Slave = {s1, s2}
  MaxInode = 5
  MaxCrashes = 2
  MaxCalls = 2
  Late = FALSE
  None = None
SYMMETRY SlaveSymmetry
INVARIANTS TypeOK CommittedReadable DataKept
