SPECIFICATION SandboxSpec
CONSTANTS
  reg = reg
  dump1 = dump1
  dump2 = dump2
  sand = sand
  j1 = j1
  j2 = j2
  r1 = r1
  d1 = d1
  d2 = d2
  x1 = x1
  b1 = b1
  b2 = b2
  Slave = {reg, dump1, sand}
  Serves <- SlavesServe
  Msg = {r1, d1, b1}
  QueueOf <- Queues
  JobOf <- Jobs
  Job = {j1}
  Malformed = {}
  Chunks = 1
  Repeat = 1
  GivUp = 4
  UploadTTL = 0
  MaxFaults = 3
  None = None
INVARIANT GoneMeansWhole
