SPECIFICATION Spec
CONSTANTS
  s1 = s1
  s2 = s2
  j1 = j1
  j2 = j2
  j3 = j3
  t1 = t1
  t2 = t2
  t3 = t3
  t4 = t4
  t5 = t5
  None = None
  Slave = {s1, s2}
  Job = {j1, j2, j3}
  Tag = {t1, t2, t3, t4, t5}
  Allowed = {j1, j2}
  Request <- Calls
  Overlap = FALSE
  Failures = FALSE
PROPERTY ImplementsLog
\* The calls of the instance are made once: the system stops after them.
CHECK_DEADLOCK FALSE
