SPECIFICATION ListSpec
CONSTANTS
  Threads = {t1, t2, t3}
  Nodes = {n1, n2}
  AddFlag = 8
  NULL = NULL
SYMMETRY Symmetry
INVARIANTS
  HeldOnce
  SettledWhenQuiet
