CONSTANT
  Hosts <- SomeHosts
  Candidates <- SomeSettings
SPECIFICATION Spec
INVARIANTS
  PublicIsReadOnly
  WritesAsConfigured
  OnlyTheHolderDecides
