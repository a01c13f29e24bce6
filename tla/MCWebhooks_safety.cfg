CONSTANTS
  e1 = e1
  e2 = e2
  x = x
  Settings <- StripeAndPayPal
  Events <- TwoAndUnknown
  Emitted <- TwoEvents
  Handlers = {h1, h2, h3}
  MaxFaults = 2
SPECIFICATION Spec
SYMMETRY Interchangeable
INVARIANTS
  TypeOK
  AckedIsRecorded
  SoleOwner
  LeftOnlyByFault
PROPERTIES
  ProcessedOnce
  StaysBehind
  IntakeSpec
