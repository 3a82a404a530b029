SPECIFICATION DeliverySpec
CONSTANTS
  EventIds = {e1}
  Hashes = {p, q}
  Handlers = {h1, h2}
  Originals = {m1, m2}
  Copies = {m1, m2, r1, r2}
  NoHash = NoHash
  NoBody = NoBody
  NoCopy = NoCopy
  Malformed = Malformed
  Headers = {0, 1}
  MaxAttempts = 2
  Prefetch = 2
  LostReplies = TRUE
  DirectTriggers = FALSE
  BrokerFaults = TRUE
  ChannelLosses = FALSE
  Crashes = TRUE
SYMMETRY Symmetry
INVARIANTS AckedIsNotForgotten
CHECK_DEADLOCK FALSE
