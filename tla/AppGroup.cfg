CONSTANTS
  u1 = u1
  u2 = u2
  a1 = a1
  a2 = a2
  g1 = g1
  g2 = g2
  r1 = r1
  r2 = r2
  Users = {u1, u2}
  Apps = {a1, a2}
  Groups = {g1, g2}
  Requests = {r1, r2}
  Nobody = Nobody
  NoApp = NoApp
  NoGroup = NoGroup
  MaxSponsored = 1
SPECIFICATION Spec
SYMMETRY Symmetry
CONSTRAINT OneOfEither
INVARIANTS
  TypeOK
  OneAppPerGroup
PROPERTIES
  SponsoredWhileDevelopment
  LinkedByAManager
  LifecycleSpec
CHECK_DEADLOCK FALSE
