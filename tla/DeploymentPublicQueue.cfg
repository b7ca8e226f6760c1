CONSTANT
  Hosts <- SomeHosts
  Candidates <- SomeSettings
SPECIFICATION Spec
INVARIANT
  PublicQueueClosed
