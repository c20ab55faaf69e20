CONSTANTS
  Photos = {p1, p2}
  Cranes = {c1, c2, c3}
  c1 = c1  c2 = c2  c3 = c3
  Nothing = Nothing
  Lat <- MCLat
  Lng <- MCLng
  AddedAt <- MCAddedAt
  CraneOf <- MCCraneOf
  MaxLat = 1
  MaxLng = 1
  Boxes <- MCBoxes
  Limit = 2
  MaxAnswers = 3
SPECIFICATION Spec
SYMMETRY Symmetry
INVARIANTS
  CompleteOrTruncated
  HalvesMissNothing
PROPERTY ShownWereActive
