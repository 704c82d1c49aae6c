SPECIFICATION Spec
CONSTANTS
  m1 = m1
  m2 = m2
  w1 = w1
  w2 = w2
  w3 = w3
  w4 = w4
  k1 = k1
  k2 = k2
  k3 = k3
  NoPid = NoPid
  Masters = {m1, m2}
  Workers = {w1, w2, w3}
  Commands = {k1, k2}
  Launches = {"start", "run"}
SYMMETRY Symmetry
CHECK_DEADLOCK FALSE
INVARIANTS TypeOK FewWorkers CleanExit PidFileNamesMaster OneMaster
