CONSTANTS
  e1 = e1
  e2 = e2
  x = x
  Settings <- StripeAndPayPal
  Events <- OneEvent
  Emitted <- OneEvent
  Handlers = {h1, h2}
  MaxFaults = 1
SPECIFICATION FairSpec
PROPERTIES
  RecordedIsProcessed
