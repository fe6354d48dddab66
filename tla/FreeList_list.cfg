SPECIFICATION FairSpec
CONSTANTS
  Node = {n1, n2, n3}
  Taker = {p1, p2}
  Giver = {c}
  NoNode = NoNode
INVARIANTS NoCarry NothingLost
PROPERTIES IsPool LockFree
