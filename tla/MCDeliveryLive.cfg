SPECIFICATION FairDeliverySpec
CONSTANTS
  EventIds = {e1}
  Hashes = {p}
  Handlers = {h1, h2}
  Originals = {m1, m2}
  Copies = {m1, m2, r1, r2, r3, r4}
  NoHash = NoHash
  NoBody = NoBody
  NoCopy = NoCopy
  Malformed = Malformed
  Headers = {0}
  MaxAttempts = 2
  Prefetch = 2
  LostReplies = FALSE
  DirectTriggers = FALSE
  BrokerFaults = TRUE
  ChannelLosses = FALSE
  Crashes = FALSE
INVARIANTS RetriesDoNotMultiply PublicationsAreBounded NoDeliveryIsStuck
PROPERTIES DeliveriesWindDown EveryMessageSettles
CHECK_DEADLOCK FALSE
