CONSTANTS
  u1 = u1
  u2 = u2
  r1 = r1
  r2 = r2
  i1 = i1
  Users = {u1, u2}
  Founder = u1
  Requests = {r1, r2}
  Invites = {i1}
  NoInvite = NoInvite
SPECIFICATION Spec
INVARIANT LastOwnerKept
