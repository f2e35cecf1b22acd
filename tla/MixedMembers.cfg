CONSTANTS
  n1 = n1
  n2 = n2
  g1 = g1
  r1 = r1
  Groups = {g1}
  Nodes = {n1, n2}
  Requests = {r1}
  Timer = Timer
  NoGroup = NoGroup
  MinExternal = 2
SPECIFICATION Spec
SYMMETRY Symmetry
PROPERTIES
  PromotedOnOneGroup
