SPECIFICATION Spec
CONSTANTS
  Threads = {t1, t2}
  Repos = {r1}
  Installations = {i1}
  None = None
  TokenLife = 4
  Margin = 2
  ExpiryFloor = 2
  DefaultLife = 3
  RepoTTL = 1
  JwtTTL = 4
  Backdate = 1
  JwtMax = 5
  MaxSkew = 1
  MaxHold = 1
SYMMETRY Symmetric
INVARIANTS LiveAtUse JwtAccepted WriteRecent
PROPERTIES RefusalRecent
