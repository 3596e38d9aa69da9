SPECIFICATION Spec
CONSTANTS
  Producers = {p1, p2, p3}
  c1 = c1
  c2 = c2
  Consumers = {c1, c2}
  Plans <- MCPlans
  QUOTA = 2
  Width = 8
  BulkCount = 2
  MaxNodes = 4
SYMMETRY Symmetry
INVARIANTS
  OneOwner
  ListComplete
  CountCoversList
  EmptyAnswer
  RotationDue
