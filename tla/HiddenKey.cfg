CONSTANTS
  g1 = g1
  k1 = k1
  i1 = i1
  c1 = c1
  c2 = c2
  r1 = r1
  Groups = {g1}
  Keys = {k1}
  Issuers = {i1}
  Rows = {c1, c2}
  Requests = {r1}
  Timer = Timer
  None = None
SPECIFICATION Spec
PROPERTIES
  TrustedKeysShown
CHECK_DEADLOCK FALSE
