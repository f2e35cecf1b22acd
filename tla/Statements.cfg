CONSTANTS
  Users = {u1, u2}
  Founder = u1
  Requests = {r1, r2}
  Invites = {i1}
  NoInvite = NoInvite
  q1 = q1
  Groups = {g1}
  Nodes = {n1, n2}
  Timer = Timer
  NoGroup = NoGroup
  MinExternal = 2
  Days = {d1, d2}
  Rows = {e1, e2, e3}
  Batches = {b1, b2}
  NoDay = NoDay
SPECIFICATION StatementsSpec
SYMMETRY Alike
INVARIANTS
  StatementsTypeOK
  OwnerKeptUnlessOvertaken
  InviteRedeemedOnce
  NeverOvercounts
PROPERTIES
  WritesWereAuthorized
  JoinsOnlyByInvite
  PromotedOnComposition
  CatchesUp
CHECK_DEADLOCK FALSE
