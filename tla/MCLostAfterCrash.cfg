SPECIFICATION DeliverySpec
CONSTANTS
  EventIds = {e1}
  Hashes = {p}
  Handlers = {h1}
  Originals = {m1}
  Copies = {m1, r1, r2}
  NoHash = NoHash
  NoBody = NoBody
  NoCopy = NoCopy
  Malformed = Malformed
  Headers = {1}
  MaxAttempts = 2
  Prefetch = 2
  LostReplies = FALSE
  DirectTriggers = FALSE
  BrokerFaults = FALSE
  ChannelLosses = FALSE
  Crashes = TRUE
INVARIANTS NoEventLost
CHECK_DEADLOCK FALSE
