SPECIFICATION Spec
CONSTANTS
  k1 = k1
  k2 = k2
  k3 = k3
  k4 = k4
  i1 = i1
  p1 = p1
  p2 = p2
  Operator = Operator
  Replicas = {a1, a2}
  Installations = {i1}
  Keys = {k1, k2, k3, k4}
  KeyRepo <- MCKeyRepo
  KeyInst <- MCKeyInst
  AllowedRepos = {p1}
  MultiTenant = TRUE
  RepoLimit = 1
  TenantLimit = 1
  TotalLimit = 2
  Hour = 1
  Day = 2
  MaxTime = 3
PROPERTY InactiveDoesNoWork
