CONSTANTS
  g1 = g1
  g2 = g2
  n1 = n1
  r1 = r1
  k1 = k1
  i1 = i1
  c1 = c1
  c2 = c2
  Groups = {g1, g2}
  Nodes = {n1}
  Requests = {r1}
  Timer = Timer
  NoGroup = NoGroup
  MinExternal = 1
  KeyGroups = {g1}
  Keys = {k1}
  Issuers = {i1}
  Rows = {c1, c2}
  None = None
SPECIFICATION MirrorsSpec
INVARIANTS
  TrustTypeOK
  ActiveWasTrusted
PROPERTIES
  PromotedOnComposition
  MirrorSettles
  TrustSettles
CHECK_DEADLOCK FALSE
