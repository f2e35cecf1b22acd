CONSTANTS
  w1 = w1
  w2 = w2
  s1 = s1
  t1 = t1
  t2 = t2
  j1 = j1
  j2 = j2
  Wallets = {w1}
  Googlers = {s1}
  Tabs = {t1, t2}
  Jobs = {j1, j2}
  Nobody = Nobody
  NoTab = NoTab
SPECIFICATION Spec
SYMMETRY Symmetry
INVARIANTS
  TypeOK
  OneOwnerPerWallet
  CertificateIdentityKept
PROPERTIES
  RecordedWalletIsOwn
  ShowsWhoIsSignedIn
  TokenKeptWhileGood
CHECK_DEADLOCK FALSE
