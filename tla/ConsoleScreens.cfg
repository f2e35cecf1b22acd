CONSTANTS
  q1 = q1
  q2 = q2
  Questions = {q1, q2}
  MaxRuns = 4
  MaxChanges = 2
  x1 = x1
  Things = {x1}
  c1 = c1
  c2 = c2
  Calls = {c1, c2}
  y1 = y1
  Syncs = {y1}
  Nothing = Nothing
  o1 = o1
  o2 = o2
  Operators = {o1, o2}
  MaxApps = 2
  k1 = k1
  k2 = k2
  s1 = s1
  Keys = {k1, k2}
  Subjects = {s1}
  d1 = d1
  d2 = d2
  Screens = {d1, d2}
  NoKey = NoKey
  Owner <- OneOwner
  FormPages <- Pages
SPECIFICATION ScreensSpec
INVARIANTS
  ScreensTypeOK
  AnswersItsQuestion
  OneActionAtATime
  ThresholdPossible
  LiveAsReviewed
  CountsFollow
PROPERTIES
  NeverGoesBack
  LoadingEnds
  RevertsOnlyAfterHandover
  GoneFromBoth
  UntouchedKept
  CleanWhenLoaded
  DisabledOnNodes
  NoSilentWipe
CHECK_DEADLOCK FALSE
