SPECIFICATION Spec
CONSTANTS
  Threads = {t1, t2}
  Clients = {c1}
  Trusted = {p1}
  Garbage = garbage
  NoPeer = nopeer
  Unknown = unknown
  Local = {}
  Gated = TRUE
  Limit = 2
  Window = 3
  Second = 2
  MaxHold = 1
  MaxForged = 2
  MaxHops = 2
INVARIANT CountedUnderSender
INVARIANT RetryHonoured
INVARIANT BurstBound
PROPERTY WindowsApart
PROPERTY SpentByHolders
