SPECIFICATION DeliverySpec
CONSTANTS
  EventIds = {e1}
  Hashes = {p, q}
  Handlers = {h1, h2}
  Originals = {m1, m2}
  Copies = {m1, m2, r1}
  NoHash = NoHash
  NoBody = NoBody
  NoCopy = NoCopy
  Malformed = Malformed
  Headers = {1}
  MaxAttempts = 2
  Prefetch = 2
  LostReplies = TRUE
  DirectTriggers = TRUE
  BrokerFaults = TRUE
  ChannelLosses = TRUE
  Crashes = TRUE
SYMMETRY Symmetry
INVARIANTS OneContentPerEvent AckedLeavesTrace TraceInv
CHECK_DEADLOCK FALSE
