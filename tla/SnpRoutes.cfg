CONSTANTS
  A = A
  B = B
  C = C
  Nodes = {A, B, C}
  LinkCost <- TriangleCost
  INFINITE_COST = 9
  NoNode = NoNode
  NoVector = NoVector
  MaxUpdates <- TwoFromA
  MaxPackets = 1
  MaxFailures = 1
  MayStarve = {}
SPECIFICATION RunningSpec
INVARIANTS
  VectorsInOrder
  VectorIsMinimum
  RouteAttains
  NeverUnderestimates
  SettledIsShortest
  RoundByRound
  NoLoops
  WithinBudget
  NoDeadEnd
