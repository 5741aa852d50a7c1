CONSTANTS
  A = A
  B = B
  C = C
  Nodes = {A, B, C}
  LinkCost <- LineCost
  INFINITE_COST = 9
  NoNode = NoNode
  NoVector = NoVector
  MaxUpdates <- OneFromEach
  MaxPackets = 1
  MaxFailures = 1
  MayStarve = {B}
SPECIFICATION StartSpec
INVARIANTS
  TypeOK
  NeverUnderestimates
PROPERTIES
  RightForGood
  Converges
  PacketsArrive
