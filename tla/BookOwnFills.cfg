CONSTANTS
  o1 = o1
  o2 = o2
  o3 = o3
  Ids <- TwoIds
  Prices = {1, 2}
  MaxQty = 2
  IocQtys = {1, 3}
  FeedKinds = {TRUE}
SPECIFICATION Spec
SYMMETRY IdSymmetry
INVARIANTS IndexMatches
