SPECIFICATION Spec
CONSTANTS
  EventIds = {e1}
  Hashes = {p, q}
  Handlers = {h1, h2, h3}
  NoHash = NoHash
  NoBody = NoBody
  LostReplies = FALSE
INVARIANTS OneRunPerEvent ClaimInv
PROPERTIES CompletedIsFinal ImplementsExclusiveClaim
