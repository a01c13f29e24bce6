CONSTANTS
  e1 = e1
  e2 = e2
  x = x
  Settings <- StripeAndPayPal
  Events <- TwoEvents
  Emitted <- TwoEvents
  Handlers = {h1, h2}
  MaxFaults = 2
SPECIFICATION FairSpec
PROPERTIES
  EventuallyAcked
  ProcessedUnlessFault
