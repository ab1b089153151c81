CONSTANTS
  User = {u1}
  green = green
  cave = cave
  a = a
  b = b
  Map = {green, cave}
  Node = {a, b}
  Conn = {c1, c2}
  Flusher = Flusher
  Rival = Rival
  Object = {o1, o2, o3}
  Deed = {d1}
  None = None
  InitOwner <- MCInitOwner
  HomeMap = green
  MaxRequests = 4
  MaxFailures = 1
SPECIFICATION MCSpec
CHECK_DEADLOCK FALSE
SYMMETRY Symmetry
INVARIANTS TypeOK SessionServed RoutedUnlessRaced
